---- MODULE Spec2Model ----
(***************************************************************************)
(* Model of sv_repeater_prune.py: the repeater-net alias resolver and      *)
(* dead-driver pruner.                                                     *)
(*                                                                         *)
(* Text is a sequence of lines, a line a sequence of lexemes.  A lexeme is *)
(* a record [k, name, sel]:                                                *)
(*   k = "w"  a word: an identifier or keyword with the bit selection that *)
(*            directly follows it (sel = <<>> bare, <<i>> name[i],         *)
(*            <<hi, lo>> name[hi:lo]); what IDENT_OR_INDEX_RE matches      *)
(*   k = "p"  punctuation or an operator, spelled in name                  *)
(*   k = "n"  a decimal number, its value in sel[1]                        *)
(*   k = "r"  a packed range standing alone: [hi:lo] literal (sel), or a   *)
(*            range over an expression of the parameter in name            *)
(*   k = "c"  a // comment; name is an identifier the comment mentions, or *)
(*            "" when it mentions none                                     *)
(* The regular expressions of the source are modelled by what they match   *)
(* on such lines.  Statements and declarations are one line each.          *)
(***************************************************************************)
EXTENDS Integers, Sequences, FiniteSets, TLC

VARIABLES
  pc,            \* position of main()
  src,           \* orig: the text read from the file
  lhs_pat,       \* --lhs-pattern, as the set of base names it matches
  inplace,       \* --inplace, once main() has looked at it
  ports,         \* parse_ports(orig)
  decl_widths,   \* collect_decl_widths(orig)
  stmt_i,        \* build_replace_map: index of the next ASSIGN_RE match
  replace_map,   \* mp of build_replace_map
  final_map,     \* make_final_map(replace_map)
  repl_table,    \* build_repl_table(final_map)
  new_lines,     \* the rewritten lines produced so far
  target_bases,  \* collect_assign_lhs_names(orig, lhs_pattern)
  pruned,        \* prune_unused_assigns_and_decls(replaced, target_bases)
  diff_out,      \* what was printed: <<before, after>> of the unified diff
  file           \* the file's contents on disk

vars == <<pc, src, lhs_pat, inplace, ports, decl_widths, stmt_i, replace_map,
          final_map, repl_table, new_lines, target_bases, pruned, diff_out, file>>

\* Python's None as a bit index (BitIndex = Optional[int]).
None == -1

----------------------------------------------------------------------------
\* Lexemes

W(n) == [k |-> "w", name |-> n, sel |-> <<>>]
Ix(n, i) == [k |-> "w", name |-> n, sel |-> <<i>>]
Sl(n, hi, lo) == [k |-> "w", name |-> n, sel |-> <<hi, lo>>]
P(s) == [k |-> "p", name |-> s, sel |-> <<>>]
Num(v) == [k |-> "n", name |-> "", sel |-> <<v>>]
Rng(hi, lo) == [k |-> "r", name |-> "", sel |-> <<hi, lo>>]
SymRng(param) == [k |-> "r", name |-> param, sel |-> <<>>]
Cmt(n) == [k |-> "c", name |-> n, sel |-> <<>>]

Lower(x, y) == IF x <= y THEN x ELSE y
Higher(x, y) == IF x <= y THEN y ELSE x

IsWord(x) == x.k = "w"
IsP(x, s) == x.k = "p" /\ x.name = s
IsKw(x, names) == x.k = "w" /\ x.sel = <<>> /\ x.name \in names

\* Sequence helpers
RECURSIVE Flatten(_)
Flatten(ss) == IF ss = <<>> THEN <<>> ELSE Head(ss) \o Flatten(Tail(ss))

Range(s) == {s[j] : j \in DOMAIN s}

\* Positions of s, in order, whose element satisfies Test
Positions(s, Test(_)) ==
  LET RECURSIVE Go(_)
      Go(j) == IF j > Len(s) THEN <<>>
               ELSE IF Test(s[j]) THEN <<j>> \o Go(j + 1) ELSE Go(j + 1)
  IN Go(1)

\* s split at the elements satisfying Sep (str.split)
SplitOn(s, Sep(_)) ==
  LET RECURSIVE Go(_, _)
      Go(j, cur) == IF j > Len(s) THEN <<cur>>
                    ELSE IF Sep(s[j]) THEN <<cur>> \o Go(j + 1, <<>>)
                    ELSE Go(j + 1, Append(cur, s[j]))
  IN Go(1, <<>>)

\* sep.join(parts)
JoinWith(parts, sep) ==
  LET RECURSIVE Go(_)
      Go(j) == IF j > Len(parts) THEN <<>>
               ELSE IF j = 1 THEN parts[1] \o Go(2)
               ELSE <<sep>> \o parts[j] \o Go(j + 1)
  IN Go(1)

\* dict.get(k, default)
Get(f, key, default) == IF key \in DOMAIN f THEN f[key] ELSE default

\* dict with d[key] = val stored
Put(f, key, val) == [x \in DOMAIN f \cup {key} |-> IF x = key THEN val ELSE f[x]]

EmptyMap == [x \in {} |-> 0]

----------------------------------------------------------------------------
\* The regular expressions

Directions == {"input", "output", "inout"}
PortQualifiers == {"wire", "logic", "reg", "signed", "unsigned"}
DeclKeywords == {"wire", "logic", "reg"}

\* ASSIGN_RE.match(line): assign <lhs> = <rhs> ; [// comment]
\* lhs has no "=", so it ends at the first "="; the statement's ";" is the
\* one only a comment may follow.
AssignSemi(line) ==
  IF Len(line) > 0 /\ line[Len(line)].k = "c" THEN Len(line) - 1 ELSE Len(line)

AssignEq(line) ==
  LET eqs == Positions(line, LAMBDA x : IsP(x, "="))
  IN IF eqs = <<>> THEN 0 ELSE eqs[1]

IsAssign(line) ==
  /\ Len(line) >= 5
  /\ IsKw(line[1], {"assign"})
  /\ AssignEq(line) >= 3
  /\ AssignSemi(line) >= AssignEq(line) + 2
  /\ IsP(line[AssignSemi(line)], ";")

AssignLhs(line) == SubSeq(line, 2, AssignEq(line) - 1)
AssignRhs(line) == SubSeq(line, AssignEq(line) + 1, AssignSemi(line) - 1)
AssignComment(line) == SubSeq(line, AssignSemi(line) + 1, Len(line))

\* DECL_RE_LINE.match(line): (wire|logic|reg) [signed] [range] <names> ;
\* with nothing after the ";" and no ";" inside the names.
DeclNamesStart(line) ==
  LET a == IF Len(line) >= 2 /\ IsKw(line[2], {"signed"}) THEN 3 ELSE 2
  IN IF Len(line) >= a /\ line[a].k = "r" THEN a + 1 ELSE a

IsDecl(line) ==
  /\ Len(line) >= 3
  /\ IsKw(line[1], DeclKeywords)
  /\ IsP(line[Len(line)], ";")
  /\ DeclNamesStart(line) <= Len(line) - 1
  /\ \A j \in 1..(Len(line) - 1) : ~IsP(line[j], ";")

\* group(3): the packed range text, "" (here <<>>) when absent
DeclWidth(line) ==
  LET a == DeclNamesStart(line) - 1
  IN IF a >= 2 /\ line[a].k = "r" THEN <<line[a]>> ELSE <<>>

\* group(4): the names part
DeclNamesPart(line) == SubSeq(line, DeclNamesStart(line), Len(line) - 1)

\* names_part.split(',')
DeclParts(line) == SplitOn(DeclNamesPart(line), LAMBDA x : IsP(x, ","))

\* re.match(r'^([A-Za-z_]\w*)', part): the name a part starts with, or ""
PartName(part) == IF part # <<>> /\ IsWord(part[1]) THEN part[1].name ELSE ""

\* IDENT_OR_INDEX_RE.findall(line): every identifier with its selection; the
\* identifiers inside a symbolic range and inside a comment are found too.
Tokens(line) ==
  LET RECURSIVE Go(_)
      Go(j) ==
        IF j > Len(line) THEN <<>>
        ELSE IF IsWord(line[j]) THEN <<line[j]>> \o Go(j + 1)
        ELSE IF line[j].k \in {"r", "c"} /\ line[j].name # ""
             THEN <<W(line[j].name)>> \o Go(j + 1)
        ELSE Go(j + 1)
  IN Go(1)

\* re.findall(r'[A-Za-z_]\w*', text): identifiers without selections
Identifiers(text) == {t.name : t \in Range(Tokens(text))}

----------------------------------------------------------------------------
\* Declaration & port scanner

iter_slice_indices(hi, lo) ==
  IF hi >= lo THEN [j \in 1..(hi - lo + 1) |-> hi - (j - 1)]
  ELSE [j \in 1..(lo - hi + 1) |-> hi + (j - 1)]

\* One match of a port expression at the direction keyword S[p]: the
\* qualifiers, the optional range and the identifier.  The result is
\* <<>> (no match) or <<range-or-<<>>, name>>.  When no identifier follows
\* the regular expression backtracks and takes the last qualifier as the name.
PortMatch(S, p) ==
  LET RECURSIVE SkipQ(_)
      SkipQ(q) == IF q <= Len(S) /\ IsKw(S[q], PortQualifiers)
                  THEN SkipQ(q + 1) ELSE q
      q == SkipQ(p + 1)
      r == IF q <= Len(S) /\ S[q].k = "r" THEN q + 1 ELSE q
  IN IF r <= Len(S) /\ IsWord(S[r])
     THEN <<(IF r > q THEN <<S[q]>> ELSE <<>>), S[r].name>>
     ELSE IF q > p + 1 THEN <<<<>>, S[q - 1].name>>
     ELSE <<>>

PortMatches(text) ==
  LET S == Flatten(text)
      at == Positions(S, LAMBDA x : IsKw(x, Directions))
  IN [j \in DOMAIN at |-> PortMatch(S, at[j])]

\* PORT_STANDALONE_RE: a line that starts with a direction, and a ";" right
\* after the name
PortsStandalone(text) ==
  {line[Len(line) - 1].name : line \in
     {l \in Range(text) :
        /\ Len(l) >= 3
        /\ IsKw(l[1], Directions)
        /\ IsP(l[Len(l)], ";")
        /\ IsWord(l[Len(l) - 1])
        /\ \A j \in 2..(Len(l) - 2) :
             \/ IsKw(l[j], PortQualifiers)
             \/ (l[j].k = "r" /\ j = Len(l) - 2)}}

parse_ports(text) ==
  {m[2] : m \in {x \in Range(PortMatches(text)) : x # <<>>}}
    \cup PortsStandalone(text)

\* widths[name] = width unless name is already there, for each name in order
AddWidths(widths, names, width) ==
  LET RECURSIVE Go(_, _)
      Go(w, j) == IF j > Len(names) THEN w
                  ELSE IF names[j] # "" /\ names[j] \notin DOMAIN w
                       THEN Go(Put(w, names[j], width), j + 1)
                       ELSE Go(w, j + 1)
  IN Go(widths, 1)

collect_decl_widths(text) ==
  LET RECURSIVE Decls(_, _)
      Decls(w, j) ==
        IF j > Len(text) THEN w
        ELSE IF IsDecl(text[j]) /\ DeclWidth(text[j]) # <<>>
             THEN Decls(AddWidths(w,
                          [q \in DOMAIN DeclParts(text[j]) |->
                             PartName(DeclParts(text[j])[q])],
                          DeclWidth(text[j])[1]), j + 1)
             ELSE Decls(w, j + 1)
      pm == PortMatches(text)
      RECURSIVE Ports(_, _)
      Ports(w, j) ==
        IF j > Len(pm) THEN w
        ELSE IF pm[j] # <<>> /\ pm[j][1] # <<>>
             THEN Ports(AddWidths(w, <<pm[j][2]>>, pm[j][1][1]), j + 1)
             ELSE Ports(w, j + 1)
  IN Ports(Decls(EmptyMap, 1), 1)

\* A variant that finds no literal range
parse_width_range_none(widths, name) == <<>>

\* parse_width_range(decl_widths.get(name, '')): <<hi, lo>>, or <<>> for None
parse_width_range(widths, name) ==
  IF name \in DOMAIN widths /\ Len(widths[name].sel) = 2
  THEN widths[name].sel ELSE <<>>

----------------------------------------------------------------------------
\* Alias map builder

\* A token string "name" or "name[i]" is the word lexeme W(name) or Ix(name, i).
render_token(base, idx) == IF idx = None THEN W(base) ELSE Ix(base, idx)

\* INDEX_RE, else BARE_RE (a token with a slice matches neither: no value)
parse_key_to_name_idx(tok) ==
  CASE Len(tok.sel) = 1 -> <<tok.name, tok.sel[1]>>
    [] Len(tok.sel) = 0 -> <<tok.name, None>>

\* decompose_lhs(lhs): [ok, base, idx]; ok = FALSE when the text is none of
\* name[i], name[hi:lo], name, where BARE_RE.match(lhs) is None and .group raises
decompose_lhs(lhs) ==
  IF Len(lhs) = 1 /\ IsWord(lhs[1])
  THEN [ok |-> TRUE, base |-> lhs[1].name,
        idx |-> IF Len(lhs[1].sel) = 1 THEN <<lhs[1].sel[1]>>
                ELSE IF Len(lhs[1].sel) = 2
                     THEN iter_slice_indices(lhs[1].sel[1], lhs[1].sel[2])
                ELSE <<None>>]
  ELSE [ok |-> FALSE, base |-> "", idx |-> <<>>]

Ref(tok, inv) == [tok |-> tok, inv |-> inv]

\* [x] * n
Repeat(x, n) == [j \in 1..n |-> x]

\* A variant that takes a slice whatever its length
ExplodeReference_any_length(what, lhs_bits, inv_all) ==
  IF Len(what.sel) = 2
  THEN LET ids == iter_slice_indices(what.sel[1], what.sel[2])
       IN [j \in 1..Len(ids) |-> Ref(Ix(what.name, ids[j]), inv_all)]
  ELSE Repeat(Ref(what, inv_all), lhs_bits)

\* explode_rhs_as_refs on a single reference (SLICE_RE, INDEX_RE, BARE_RE)
ExplodeReference(what, lhs_bits, inv_all) ==
  IF Len(what.sel) = 2
  THEN LET ids == iter_slice_indices(what.sel[1], what.sel[2])
       IN IF Len(ids) # lhs_bits THEN <<>>
          ELSE [j \in 1..Len(ids) |-> Ref(Ix(what.name, ids[j]), inv_all)]
  ELSE Repeat(Ref(what, inv_all), lhs_bits)

\* REPL_RE: { count { [~] what } }
IsReplication(rhs) ==
  /\ Len(rhs) \in {6, 7}
  /\ IsP(rhs[1], "{") /\ rhs[2].k = "n" /\ IsP(rhs[3], "{")
  /\ IsP(rhs[Len(rhs)], "}") /\ IsP(rhs[Len(rhs) - 1], "}")
  /\ IsWord(rhs[Len(rhs) - 2])
  /\ (Len(rhs) = 7 => IsP(rhs[4], "~"))

\* A variant that accepts a replication whatever its count
explode_rhs_no_count_check(rhs0, lhs_bits) ==
  LET inv_all == Len(rhs0) >= 2 /\ IsP(rhs0[1], "~")
      rhs == IF inv_all THEN Tail(rhs0) ELSE rhs0
  IN IF IsReplication(rhs)
     THEN LET inner_inv == Len(rhs) = 7
              src_bits == ExplodeReference(rhs[Len(rhs) - 2], 1, FALSE)
          IN IF src_bits = <<>> THEN <<>>
             ELSE Repeat(Ref(src_bits[1].tok,
                             (src_bits[1].inv # inner_inv) # inv_all), lhs_bits)
     ELSE IF Len(rhs) = 1 /\ IsWord(rhs[1])
          THEN ExplodeReference(rhs[1], lhs_bits, inv_all)
     ELSE <<>>

\* explode_rhs_as_refs(rhs, lhs_bits): the list of (token, invert), or <<>>
\* for None
explode_rhs_as_refs(rhs0, lhs_bits) ==
  LET inv_all == Len(rhs0) >= 2 /\ IsP(rhs0[1], "~")
      rhs == IF inv_all THEN Tail(rhs0) ELSE rhs0
  IN IF IsReplication(rhs)
     THEN LET count == rhs[2].sel[1]
              inner_inv == Len(rhs) = 7
              src_bits == ExplodeReference(rhs[Len(rhs) - 2], 1, FALSE)
          IN IF src_bits = <<>> THEN <<>>
             ELSE IF count >= lhs_bits
                  THEN Repeat(Ref(src_bits[1].tok,
                                  (src_bits[1].inv # inner_inv) # inv_all),
                              lhs_bits)
                  ELSE <<>>
     ELSE IF Len(rhs) = 1 /\ IsWord(rhs[1])
          THEN ExplodeReference(rhs[1], lhs_bits, inv_all)
     ELSE <<>>

\* A variant that expands a bare left-hand side from the higher bound down,
\* whatever the declared order
LhsIdxList_descending(d, widths) ==
  IF d.idx = <<None>> /\ parse_width_range(widths, d.base) # <<>>
  THEN iter_slice_indices(Higher(parse_width_range(widths, d.base)[1],
                                 parse_width_range(widths, d.base)[2]),
                          Lower(parse_width_range(widths, d.base)[1],
                                parse_width_range(widths, d.base)[2]))
  ELSE d.idx

\* The bit positions an accepted statement writes: the bare left-hand side of a
\* net with a literal declared range is expanded to the range's bits.
LhsIdxList(d, widths) ==
  IF d.idx = <<None>> /\ parse_width_range(widths, d.base) # <<>>
  THEN iter_slice_indices(parse_width_range(widths, d.base)[1],
                          parse_width_range(widths, d.base)[2])
  ELSE d.idx

\* A variant that does not look at the port set
SkipsStatement_no_port_check(d, rhs, pat, skip_ports, widths) ==
  \/ d.base \notin pat
  \/ explode_rhs_as_refs(rhs, Len(LhsIdxList(d, widths))) = <<>>

\* Whether the loop body of build_replace_map skips the statement (continue)
SkipsStatement(d, rhs, pat, skip_ports, widths) ==
  \/ d.base \in skip_ports
  \/ d.base \notin pat
  \/ explode_rhs_as_refs(rhs, Len(LhsIdxList(d, widths))) = <<>>

\* A variant that keeps the entry a key already has
BuildOne_first_writer(mp, line, pat, skip_ports, widths) ==
  LET d == decompose_lhs(AssignLhs(line))
      ids == LhsIdxList(d, widths)
      refs == explode_rhs_as_refs(AssignRhs(line), Len(ids))
  IN IF SkipsStatement(d, AssignRhs(line), pat, skip_ports, widths) THEN mp
     ELSE [key \in DOMAIN mp \cup {<<d.base, ids[j]>> : j \in DOMAIN ids} |->
             IF key \in DOMAIN mp THEN mp[key]
             ELSE refs[CHOOSE j \in DOMAIN ids :
                         /\ key = <<d.base, ids[j]>>
                         /\ \A q \in DOMAIN ids :
                              key = <<d.base, ids[q]>> => q <= j]]

\* One iteration of the loop of build_replace_map over an ASSIGN_RE match
\* whose left-hand side decomposes
BuildOne(mp, line, pat, skip_ports, widths) ==
  LET d == decompose_lhs(AssignLhs(line))
      ids == LhsIdxList(d, widths)
      refs == explode_rhs_as_refs(AssignRhs(line), Len(ids))
  IN IF SkipsStatement(d, AssignRhs(line), pat, skip_ports, widths) THEN mp
     ELSE [key \in DOMAIN mp \cup {<<d.base, ids[j]>> : j \in DOMAIN ids} |->
             IF \E j \in DOMAIN ids : key = <<d.base, ids[j]>>
             THEN refs[CHOOSE j \in DOMAIN ids :
                         /\ key = <<d.base, ids[j]>>
                         /\ \A q \in DOMAIN ids :
                              key = <<d.base, ids[q]>> => q <= j]
             ELSE mp[key]]

\* The ASSIGN_RE matches of the text, as line numbers in order
AssignLines(text) ==
  LET RECURSIVE Go(_)
      Go(j) == IF j > Len(text) THEN <<>>
               ELSE IF IsAssign(text[j]) THEN <<j>> \o Go(j + 1) ELSE Go(j + 1)
  IN Go(1)

----------------------------------------------------------------------------
\* Alias resolver

RECURSIVE resolve_final_no_fold(_, _, _, _)
resolve_final_no_fold(src_map, base, idx, seen) ==
  IF <<base, idx>> \in seen \/ <<base, idx>> \notin DOMAIN src_map
  THEN Ref(render_token(base, idx), FALSE)
  ELSE LET nxt == src_map[<<base, idx>>]
           n == parse_key_to_name_idx(nxt.tok)
           r == resolve_final_no_fold(src_map, n[1], n[2],
                                      seen \cup {<<base, idx>>})
       IN Ref(r.tok, r.inv)

\* A variant that stops after the first hop
resolve_final_one_hop(src_map, base, idx, seen) ==
  IF <<base, idx>> \notin DOMAIN src_map
  THEN Ref(render_token(base, idx), FALSE)
  ELSE src_map[<<base, idx>>]

RECURSIVE resolve_final(_, _, _, _)
resolve_final(src_map, base, idx, seen) ==
  IF <<base, idx>> \in seen
  THEN Ref(render_token(base, idx), FALSE)
  ELSE IF <<base, idx>> \notin DOMAIN src_map
  THEN Ref(render_token(base, idx), FALSE)
  ELSE LET nxt == src_map[<<base, idx>>]
           n == parse_key_to_name_idx(nxt.tok)
           r == resolve_final(src_map, n[1], n[2], seen \cup {<<base, idx>>})
       IN Ref(r.tok, nxt.inv # r.inv)

\* A variant that records the call that finds its key in seen as a visit
RECURSIVE resolve_visits_counts_revisit(_, _, _, _)
resolve_visits_counts_revisit(src_map, base, idx, seen) ==
  IF <<base, idx>> \in seen THEN <<<<base, idx>>>>
  ELSE IF <<base, idx>> \notin DOMAIN src_map THEN <<<<base, idx>>>>
  ELSE LET n == parse_key_to_name_idx(src_map[<<base, idx>>].tok)
       IN <<<<base, idx>>>>
            \o resolve_visits_counts_revisit(src_map, n[1], n[2],
                                             seen \cup {<<base, idx>>})

\* The keys resolve_final adds to seen in one walk, in order: a call returns
\* at once when its key is in seen, and otherwise adds it and goes on
RECURSIVE resolve_visits(_, _, _, _)
resolve_visits(src_map, base, idx, seen) ==
  IF <<base, idx>> \in seen THEN <<>>
  ELSE IF <<base, idx>> \notin DOMAIN src_map THEN <<<<base, idx>>>>
  ELSE LET n == parse_key_to_name_idx(src_map[<<base, idx>>].tok)
       IN <<<<base, idx>>>>
            \o resolve_visits(src_map, n[1], n[2], seen \cup {<<base, idx>>})

make_final_map(src_map) ==
  [key \in DOMAIN src_map |-> resolve_final(src_map, key[1], key[2], {})]

----------------------------------------------------------------------------
\* Replacement table: token -> replacement text

\* f"~{src_key}" if inv else src_key
InvText(ref) == IF ref.inv THEN <<P("~"), ref.tok>> ELSE <<ref.tok>>

build_repl_table(fm) ==
  [tok \in {render_token(key[1], key[2]) : key \in DOMAIN fm} |->
     InvText(fm[parse_key_to_name_idx(tok)])]

----------------------------------------------------------------------------
\* Rewriter

\* DOUBLE_NEG_RE.sub('', expr): one left-to-right pass over adjacent "~" "~"
DoubleNegSub(expr) ==
  LET RECURSIVE Go(_)
      Go(j) == IF j > Len(expr) THEN <<>>
               ELSE IF j < Len(expr) /\ IsP(expr[j], "~") /\ IsP(expr[j + 1], "~")
                    THEN Go(j + 2)
               ELSE <<expr[j]>> \o Go(j + 1)
  IN Go(1)

\* A variant that removes nothing
collapse_double_neg_none(expr) == expr

RECURSIVE collapse_double_neg(_)
collapse_double_neg(expr) ==
  IF DoubleNegSub(expr) = expr THEN expr
  ELSE collapse_double_neg(DoubleNegSub(expr))

\* A variant that does not compare the base names of the bits
_compact_slice_no_name_check(parts) ==
  IF Len(parts) < 2 THEN <<>>
  ELSE IF \E j \in DOMAIN parts :
            ~(Len(parts[j]) = 1 /\ IsWord(parts[j][1]) /\ Len(parts[j][1].sel) = 1)
  THEN <<>>
  ELSE LET parsed == [j \in DOMAIN parts |-> <<parts[j][1].name, parts[j][1].sel[1]>>]
           deltas == [j \in 1..(Len(parsed) - 1) |-> parsed[j + 1][2] - parsed[j][2]]
           step == deltas[1]
       IN IF \E j \in DOMAIN deltas : deltas[j] # deltas[1] THEN <<>>
          ELSE IF step \notin {-1, 1} THEN <<>>
          ELSE IF step = 1
               THEN <<Sl(parsed[1][1], parsed[Len(parsed)][2], parsed[1][2])>>
               ELSE <<Sl(parsed[1][1], parsed[1][2], parsed[Len(parsed)][2])>>

\* _compact_slice_from_parts(parts): the slice text, or <<>> for None
_compact_slice_from_parts(parts) ==
  IF Len(parts) < 2 THEN <<>>
  ELSE IF \E j \in DOMAIN parts :
            ~(Len(parts[j]) = 1 /\ IsWord(parts[j][1]) /\ Len(parts[j][1].sel) = 1)
  THEN <<>>
  ELSE LET parsed == [j \in DOMAIN parts |-> <<parts[j][1].name, parts[j][1].sel[1]>>]
           deltas == [j \in 1..(Len(parsed) - 1) |-> parsed[j + 1][2] - parsed[j][2]]
           step == deltas[1]
       IN IF Cardinality({parsed[j][1] : j \in DOMAIN parsed}) # 1 THEN <<>>
          ELSE IF \E j \in DOMAIN deltas : deltas[j] # deltas[1] THEN <<>>
          ELSE IF step \notin {-1, 1} THEN <<>>
          ELSE IF step = 1
               THEN <<Sl(parsed[1][1], parsed[Len(parsed)][2], parsed[1][2])>>
               ELSE <<Sl(parsed[1][1], parsed[1][2], parsed[Len(parsed)][2])>>

_assemble_parts(name, idxs, table) ==
  [j \in DOMAIN idxs |-> Get(table, Ix(name, idxs[j]), <<Ix(name, idxs[j])>>)]

\* The rendering shared by the two branches of _replace_token
RenderParts(tok, parts) ==
  IF Len(parts) = 0 THEN <<tok>>
  ELSE IF Len(parts) = 1 THEN parts[1]
  ELSE IF \A j \in DOMAIN parts : parts[j] = parts[1]
  THEN <<P("{"), Num(Len(parts)), P("{")>> \o parts[1] \o <<P("}"), P("}")>>
  ELSE IF _compact_slice_from_parts(parts) # <<>>
  THEN _compact_slice_from_parts(parts)
  ELSE <<P("{")>> \o JoinWith(parts, P(",")) \o <<P("}")>>

\* _replace_token(tok, repl_table, decl_widths, allow_vector_assembly): the
\* replacement text of one IDENT_OR_INDEX_RE match
_replace_token(tok, table, widths, allow_vector_assembly) ==
  IF Len(tok.sel) = 2
  THEN RenderParts(tok, _assemble_parts(tok.name,
                          iter_slice_indices(tok.sel[1], tok.sel[2]), table))
  ELSE IF tok \in DOMAIN table THEN table[tok]
  ELSE LET rng == IF allow_vector_assembly /\ tok.sel = <<>>
                  THEN parse_width_range(widths, tok.name) ELSE <<>>
       IN IF rng # <<>>
          THEN RenderParts(tok, _assemble_parts(tok.name,
                                  iter_slice_indices(rng[1], rng[2]), table))
          ELSE <<tok>>

\* The first identifier of a text, "" when it has none
FirstIdentifier(text) == IF Tokens(text) = <<>> THEN "" ELSE Tokens(text)[1].name

\* IDENT_OR_INDEX_RE.sub(repl_token, text).  An identifier inside a comment
\* or a symbolic range is substituted too; the lexeme then mentions the
\* first identifier of its replacement.
SubstituteTokens(text, table, widths, allow_vector_assembly) ==
  LET RECURSIVE Go(_)
      Go(j) ==
        IF j > Len(text) THEN <<>>
        ELSE IF IsWord(text[j])
             THEN _replace_token(text[j], table, widths, allow_vector_assembly)
                    \o Go(j + 1)
        ELSE IF text[j].k \in {"r", "c"} /\ text[j].name # ""
             THEN <<[text[j] EXCEPT !.name =
                       FirstIdentifier(_replace_token(W(text[j].name), table,
                                         widths, allow_vector_assembly))]>>
                    \o Go(j + 1)
        ELSE <<text[j]>> \o Go(j + 1)
  IN Go(1)

_should_collapse_lhs(new_rhs) ==
  /\ new_rhs # <<>>
  /\ IsP(new_rhs[1], "{")
  /\ IsP(new_rhs[Len(new_rhs)], "}")
  /\ \A j \in DOMAIN new_rhs : ~IsP(new_rhs[j], ",")

\* The rewritten right-hand side of a driving statement
NewRhs(line, table, widths) ==
  collapse_double_neg(SubstituteTokens(AssignRhs(line), table, widths, TRUE))

\* A variant that substitutes in the whole line
replace_in_whole_line(line, table, widths) ==
  SubstituteTokens(line, table, widths, TRUE)

\* replace_in_rhs_only(line, repl_table, decl_widths), for an ASSIGN_RE line
replace_in_rhs_only(line, table, widths) ==
  LET lhs == AssignLhs(line)
      slice_m == Len(lhs) = 1 /\ IsWord(lhs[1]) /\ Len(lhs[1].sel) = 2
      new_rhs == NewRhs(line, table, widths)
      lhs_render ==
        IF /\ slice_m
           /\ _should_collapse_lhs(new_rhs)
           /\ lhs[1].name \in DOMAIN widths
           /\ widths[lhs[1].name] = Rng(lhs[1].sel[1], lhs[1].sel[2])
        THEN <<W(lhs[1].name)>> ELSE lhs
  IN <<W("assign")>> \o lhs_render \o <<P("=")>> \o new_rhs \o <<P(";")>>
       \o AssignComment(line)

\* A variant that assembles bare vectors from their declared width
global_replace_line_assembling(line, table, widths) ==
  SubstituteTokens(line, table, widths, TRUE)

\* global_replace_line(line, repl_table, decl_widths)
global_replace_line(line, table, widths) ==
  SubstituteTokens(line, table, widths, FALSE)

----------------------------------------------------------------------------
\* Pruner

\* INDEX_RE.match(lhs) or SLICE_RE.match(lhs) or BARE_RE.match(lhs)
LhsMatches(lhs) == Len(lhs) = 1 /\ IsWord(lhs[1])

\* A variant that takes only the names that have an alias entry
collect_assign_lhs_names_aliased(text, pat) ==
  {AssignLhs(text[j])[1].name : j \in
     {q \in DOMAIN text : /\ IsAssign(text[q])
                          /\ LhsMatches(AssignLhs(text[q]))
                          /\ AssignLhs(text[q])[1].name \in pat
                          /\ \E key \in DOMAIN replace_map :
                               key[1] = AssignLhs(text[q])[1].name}}

collect_assign_lhs_names(text, pat) ==
  {AssignLhs(text[j])[1].name : j \in
     {q \in DOMAIN text : /\ IsAssign(text[q])
                          /\ LhsMatches(AssignLhs(text[q]))
                          /\ AssignLhs(text[q])[1].name \in pat}}

\* The names the use count of a line leaves out
ExcludedOnLine(line) ==
  (IF IsAssign(line) /\ LhsMatches(AssignLhs(line))
   THEN {AssignLhs(line)[1].name} ELSE {})
  \cup (IF IsDecl(line) THEN Identifiers(DeclNamesPart(line)) ELSE {})

\* uses[n] after the counting loop
UsesOf(text, n) ==
  LET RECURSIVE Sum(_)
      Sum(j) ==
        IF j > Len(text) THEN 0
        ELSE (IF n \in ExcludedOnLine(text[j]) THEN 0
              ELSE Cardinality({q \in DOMAIN Tokens(text[j]) :
                                  Tokens(text[j])[q].name = n}))
             + Sum(j + 1)
  IN Sum(1)

ToRemove(text, target_names) == {n \in target_names : UsesOf(text, n) = 0}

\* A variant that keeps every part of a declaration
KeepParts_keep_all(line, to_remove) == DeclParts(line)

\* A variant that drops the whole list when one part is dead
KeepParts_drop_line(line, to_remove) ==
  IF \E q \in DOMAIN DeclParts(line) : PartName(DeclParts(line)[q]) \in to_remove
  THEN <<>> ELSE DeclParts(line)

\* The declaration parts that stay
KeepParts(line, to_remove) ==
  LET parts == DeclParts(line)
      RECURSIVE Go(_)
      Go(j) == IF j > Len(parts) THEN <<>>
               ELSE IF PartName(parts[j]) # "" /\ PartName(parts[j]) \in to_remove
                    THEN Go(j + 1)
               ELSE <<parts[j]>> \o Go(j + 1)
  IN Go(1)

\* prune_unused_assigns_and_decls(src, target_names).  Every ASSIGN_RE line it
\* meets has a left-hand side that is a single reference: build_replace_map
\* has raised on any other before the prune pass is reached.
prune_unused_assigns_and_decls(text, target_names) ==
  LET to_remove == ToRemove(text, target_names)
      RECURSIVE Out(_)
      Out(j) ==
        IF j > Len(text) THEN <<>>
        ELSE IF IsAssign(text[j]) /\ AssignLhs(text[j])[1].name \in to_remove
             THEN Out(j + 1)
        ELSE IF IsDecl(text[j])
             THEN IF KeepParts(text[j], to_remove) = <<>> THEN Out(j + 1)
                  ELSE <<SubSeq(text[j], 1, DeclNamesStart(text[j]) - 1)
                           \o JoinWith(KeepParts(text[j], to_remove), P(","))
                           \o <<P(";")>>>> \o Out(j + 1)
        ELSE <<text[j]>> \o Out(j + 1)
  IN IF to_remove = {} THEN text ELSE Out(1)

----------------------------------------------------------------------------
\* Inputs

\* Most driving statements of an input's body
MaxStmts == 2

\* Most keys of an alias map handed to the resolver alone
MaxKeys == 3

Asg(lhs, rhs) == <<W("assign")>> \o lhs \o <<P("=")>> \o rhs \o <<P(";")>>
Repl(n, unit) == <<P("{"), Num(n), P("{")>> \o unit \o <<P("}"), P("}")>>

\* module M(input wire s, input wire [3:0] bus, output wire o, output wire c0);
HeaderFront ==
  <<W("module"), W("M"), P("("), W("input"), W("wire"), W("s"), P(","),
    W("input"), W("wire"), Rng(3, 0), W("bus"), P(","),
    W("output"), W("wire"), W("o"), P(","), W("output")>>

HeaderOneLine == <<HeaderFront \o <<W("wire"), W("c0"), P(")"), P(";")>>>>

\* The same header with the line broken after the last direction keyword
HeaderSplit == <<HeaderFront, <<W("wire"), W("c0"), P(")"), P(";")>>>>

DeclsPlain ==
  <<<<W("wire"), W("a"), P(","), W("k"), P(","), W("b"), P(","), W("c"), P(";")>>,
    <<W("wire"), Rng(1, 0), W("v"), P(","), W("u"), P(";")>>>>

\* wire k = a;  a declaration with an initializer
DeclsInit ==
  <<<<W("wire"), W("a"), P(","), W("b"), P(","), W("c"), P(";")>>,
    <<W("wire"), W("k"), P("="), W("a"), P(";")>>,
    <<W("wire"), Rng(1, 0), W("v"), P(","), W("u"), P(";")>>>>

\* module M(input wire s, input wire [3:0] bus, output wire o, c0);
\* two output ports that share one direction keyword
HeaderShared ==
  <<<<W("module"), W("M"), P("("), W("input"), W("wire"), W("s"), P(","),
      W("input"), W("wire"), Rng(3, 0), W("bus"), P(","),
      W("output"), W("wire"), W("o"), P(","), W("c0"), P(")"), P(";")>>>>

Layouts ==
  {HeaderOneLine \o DeclsPlain, HeaderSplit \o DeclsPlain, HeaderOneLine \o DeclsInit,
   HeaderShared \o DeclsPlain}

Footer == <<<<W("endmodule")>>>>

StmtPool ==
  { Asg(<<W("a")>>, <<W("s")>>),
    Asg(<<W("a")>>, <<P("~"), W("b")>>),
    Asg(<<W("b")>>, <<P("~"), W("c")>>),
    Asg(<<W("b")>>, <<W("a")>>),
    Asg(<<W("a")>>, <<P("~"), W("a")>>),
    Asg(<<W("v")>>, Repl(2, <<W("s")>>)),
    Asg(<<Sl("v", 1, 0)>>, Repl(2, <<P("~"), W("s")>>)),
    Asg(<<W("v")>>, Repl(1, <<W("s")>>)),
    Asg(<<Sl("v", 1, 0)>>, <<Sl("bus", 3, 2)>>),
    Asg(<<Sl("v", 1, 0)>>, <<Sl("bus", 2, 3)>>),
    Asg(<<Ix("v", 0)>>, <<Ix("bus", 0)>>),
    Asg(<<W("o")>>, <<W("a"), P("&"), W("k")>>),
    Asg(<<W("o")>>, <<P("~"), W("b")>>),
    Asg(<<W("o")>>, <<W("v")>>),
    Asg(<<W("o")>>, <<Sl("v", 1, 0)>>),
    Asg(<<W("c0")>>, <<W("a")>>),
    Asg(<<W("o")>>, <<P("~"), W("c0")>>),
    Asg(<<W("k")>>, <<W("a")>>),
    Asg(<<W("u")>>, <<W("v")>>),
    Asg(<<W("o")>>, <<P("~"), P("~"), P("~"), W("b")>>),
    Asg(<<W("o")>>, <<Ix("u", 0)>>),
    Asg(<<W("o")>>, <<P("~"), W("b")>>) \o <<Cmt("b")>>,
    Asg(<<P("{"), W("a"), P(","), W("b"), P("}")>>, <<Sl("bus", 1, 0)>>) }

\* The target patterns, each as the set of base names it matches
Patterns == {{"a", "b", "c", "v", "c0"}, {"a", "v", "k", "u"}}

RECURSIVE SeqsUpTo(_, _)
SeqsUpTo(S, n) ==
  IF n = 0 THEN {<<>>}
  ELSE SeqsUpTo(S, n - 1)
         \cup {Append(q, x) : q \in {r \in SeqsUpTo(S, n - 1) : Len(r) = n - 1},
                              x \in S}

Inputs == {l \o body \o Footer : l \in Layouts, body \in SeqsUpTo(StmtPool, MaxStmts)}

\* The inputs of the test suite, each with its pattern
\* test_slice_and_vector_copy, and the same with the two statements swapped
SliceCopyHeader ==
  <<<<W("module"), W("M"), P("(")>>,
    <<W("input"), W("wire"), Rng(7, 0), W("bus_in"), P(",")>>,
    <<W("output"), W("wire"), Rng(3, 0), W("x_cpy1")>>,
    <<P(")"), P(";")>>,
    <<W("wire"), Rng(3, 0), W("x_pow1"), P(";")>>>>

SliceCopyPow == Asg(<<Sl("x_pow1", 3, 0)>>, <<Sl("bus_in", 7, 4)>>)
SliceCopyCpy == Asg(<<W("x_cpy1")>>, <<W("x_pow1")>>)

SliceCopyInputs ==
  {SliceCopyHeader \o <<SliceCopyPow, SliceCopyCpy>> \o Footer,
   SliceCopyHeader \o <<SliceCopyCpy, SliceCopyPow>> \o Footer}

SliceCopyPattern == {"x_pow1", "x_cpy1"}

\* test_rhs_only_replacement_lhs_kept
RhsOnlyInput ==
  <<<<W("module"), W("M"), P("("), W("input"), W("wire"), W("a"), P(","),
      W("output"), W("wire"), W("copy1"), P(")"), P(";")>>,
    <<W("wire"), W("m_tmp"), P(";")>>,
    Asg(<<W("m_tmp")>>, <<P("~"), W("a")>>),
    Asg(<<W("copy1")>>, <<P("~"), W("m_tmp")>>) \o <<Cmt("LHS")>>>> \o Footer

RhsOnlyPattern == {"m_tmp", "copy1"}

\* test_double_invert_chain
DoubleInvertInput ==
  <<<<W("module"), W("M"), P("(")>>,
    <<W("input"), W("wire"), W("p_abc_in"), P(",")>>,
    <<W("output"), W("wire"), W("p_abc_copy")>>,
    <<P(")"), P(";")>>,
    <<W("wire"), W("p_abc"), P(","), W("m_abc"), P(";")>>,
    Asg(<<W("p_abc")>>, <<W("p_abc_in")>>),
    Asg(<<W("m_abc")>>, <<P("~"), W("p_abc")>>),
    Asg(<<W("p_abc_copy")>>, <<P("~"), W("m_abc")>>)>> \o Footer

DoubleInvertPattern == {"m_abc", "p_abc_copy"}

\* test_remove_only_target_from_mixed_decl
MixedDeclInput ==
  <<<<W("module"), W("M"), P("("), W("input"), W("wire"), W("s"), P(","),
      W("output"), W("wire"), W("c0"), P(")"), P(";")>>,
    <<W("wire"), W("keep_me"), P(","), W("copy0"), P(","), W("also_keep"), P(";")>>,
    Asg(<<W("copy0")>>, <<W("s")>>),
    Asg(<<W("c0")>>, <<W("copy0"), P("&"), W("keep_me")>>)>> \o Footer

MixedDeclPattern == {"copy0"}

\* A second family of inputs: a vector with a parameterised range, one with an
\* ascending range, and a line that is neither a driving statement nor a
\* declaration
\* module M(input wire s, input wire [3:0] bus, output wire o);
WideHeader ==
  <<<<W("module"), W("M"), P("("), W("input"), W("wire"), W("s"), P(","),
      W("input"), W("wire"), Rng(3, 0), W("bus"), P(","),
      W("output"), W("wire"), W("o"), P(")"), P(";")>>>>

WideDecls ==
  <<<<W("wire"), SymRng("W"), W("w"), P(";")>>,
    <<W("wire"), Rng(0, 1), W("r"), P(";")>>,
    <<W("wire"), Rng(1, 0), W("v"), P(";")>>,
    <<W("wire"), W("b"), P(","), W("c"), P(";")>>>>

\* sub i0(v, v[1:0], r);
WideInstance ==
  <<<<W("sub"), W("i0"), P("("), W("v"), P(","), Sl("v", 1, 0), P(","), W("r"),
      P(")"), P(";")>>>>

WidePool ==
  { Asg(<<W("w")>>, <<W("s")>>),
    Asg(<<W("r")>>, <<Sl("bus", 3, 2)>>),
    Asg(<<W("v")>>, Repl(2, <<W("s")>>)),
    Asg(<<W("c")>>, <<W("b"), P("&"), W("s")>>),
    Asg(<<W("b")>>, <<W("s"), P("&"), Ix("bus", 0)>>),
    Asg(<<Sl("v", 1, 0)>>, <<Sl("bus", 3, 1)>>),
    Asg(<<W("o")>>, <<W("r")>>),
    Asg(<<W("o")>>, <<Sl("bus", 2, 2), P("&"), P("~"), P("~"), W("s")>>),
    Asg(<<Sl("v", 1, 0)>>,
        Repl(2, <<W("s")>>) \o <<P("&")>> \o Repl(2, <<Ix("bus", 0)>>)) }

WidePattern == {"w", "r", "v", "b", "c"}

WideInputs ==
  {WideHeader \o WideDecls \o WideInstance \o body \o Footer :
     body \in SeqsUpTo(WidePool, MaxStmts)}

Scenarios ==
  {<<t, SliceCopyPattern>> : t \in SliceCopyInputs}
    \cup {<<RhsOnlyInput, RhsOnlyPattern>>,
          <<DoubleInvertInput, DoubleInvertPattern>>,
          <<MixedDeclInput, MixedDeclPattern>>}

\* A run's file and pattern
RunInputs == (Inputs \X Patterns) \cup (WideInputs \X {WidePattern}) \cup Scenarios

\* Alias maps for the resolver alone: the first MaxKeys keys, each absent or
\* driven by any token of the pool, inverted or not
KeyPool == <<<<"a", None>>, <<"b", None>>, <<"c", None>>, <<"v", 0>>, <<"v", 1>>>>
ResolverKeys == {KeyPool[j] : j \in 1..(IF MaxKeys < Len(KeyPool) THEN MaxKeys ELSE Len(KeyPool))}
ResolverTokens ==
  {render_token(key[1], key[2]) : key \in ResolverKeys} \cup {W("p"), Ix("q", 1)}
ResolverMaps ==
  UNION {[D -> [tok : ResolverTokens, inv : BOOLEAN]] : D \in SUBSET ResolverKeys}

----------------------------------------------------------------------------
\* main()

Init ==
  /\ pc = "scan"
  /\ \E run \in RunInputs : src = run[1] /\ lhs_pat = run[2]
  /\ inplace = FALSE
  /\ ports = {}
  /\ decl_widths = EmptyMap
  /\ stmt_i = 0
  /\ replace_map = EmptyMap
  /\ final_map = EmptyMap
  /\ repl_table = EmptyMap
  /\ new_lines = <<>>
  /\ target_bases = {}
  /\ pruned = <<>>
  /\ diff_out = <<>>
  /\ file = src

\* ports = parse_ports(orig); decl_widths = collect_decl_widths(orig)
Scan ==
  /\ pc = "scan"
  /\ ports' = parse_ports(src)
  /\ decl_widths' = collect_decl_widths(src)
  /\ stmt_i' = 1
  /\ pc' = "build"
  /\ UNCHANGED <<src, lhs_pat, inplace, replace_map, final_map, repl_table,
                 new_lines, target_bases, pruned, diff_out, file>>

\* The statement build_replace_map is at
CurStmt == src[AssignLines(src)[stmt_i]]

\* One iteration of build_replace_map's loop
BuildStatement ==
  /\ pc = "build"
  /\ stmt_i <= Len(AssignLines(src))
  /\ decompose_lhs(AssignLhs(CurStmt)).ok
  /\ replace_map' = BuildOne(replace_map, CurStmt, lhs_pat, ports, decl_widths)
  /\ stmt_i' = stmt_i + 1
  /\ UNCHANGED <<pc, src, lhs_pat, inplace, ports, decl_widths, final_map,
                 repl_table, new_lines, target_bases, pruned, diff_out, file>>

\* decompose_lhs raises on a left-hand side that is no single reference; the
\* exception leaves main()
BuildRaises ==
  /\ pc = "build"
  /\ stmt_i <= Len(AssignLines(src))
  /\ ~decompose_lhs(AssignLhs(CurStmt)).ok
  /\ pc' = "raised"
  /\ UNCHANGED <<src, lhs_pat, inplace, ports, decl_widths, stmt_i, replace_map,
                 final_map, repl_table, new_lines, target_bases, pruned,
                 diff_out, file>>

\* final_map = make_final_map(replace_map)
Resolve ==
  /\ pc = "build"
  /\ stmt_i > Len(AssignLines(src))
  /\ final_map' = make_final_map(replace_map)
  /\ pc' = "table"
  /\ UNCHANGED <<src, lhs_pat, inplace, ports, decl_widths, stmt_i, replace_map,
                 repl_table, new_lines, target_bases, pruned, diff_out, file>>

\* repl_table = build_repl_table(final_map)
BuildTable ==
  /\ pc = "table"
  /\ repl_table' = build_repl_table(final_map)
  /\ pc' = "rewrite"
  /\ UNCHANGED <<src, lhs_pat, inplace, ports, decl_widths, stmt_i, replace_map,
                 final_map, new_lines, target_bases, pruned, diff_out, file>>

\* The line the rewrite loop is at
CurLine == src[Len(new_lines) + 1]

RewriteFrame ==
  UNCHANGED <<pc, src, lhs_pat, inplace, ports, decl_widths, stmt_i, replace_map,
              final_map, repl_table, target_bases, pruned, diff_out, file>>

RewriteAssign ==
  /\ pc = "rewrite"
  /\ Len(new_lines) < Len(src)
  /\ IsAssign(CurLine)
  /\ new_lines' = Append(new_lines, replace_in_rhs_only(CurLine, repl_table, decl_widths))
  /\ RewriteFrame

RewriteDecl ==
  /\ pc = "rewrite"
  /\ Len(new_lines) < Len(src)
  /\ ~IsAssign(CurLine)
  /\ IsDecl(CurLine)
  /\ new_lines' = Append(new_lines, CurLine)
  /\ RewriteFrame

RewriteOther ==
  /\ pc = "rewrite"
  /\ Len(new_lines) < Len(src)
  /\ ~IsAssign(CurLine)
  /\ ~IsDecl(CurLine)
  /\ new_lines' = Append(new_lines, global_replace_line(CurLine, repl_table, decl_widths))
  /\ RewriteFrame

\* target_bases = collect_assign_lhs_names(orig, lhs_pattern)
CollectTargets ==
  /\ pc = "rewrite"
  /\ Len(new_lines) = Len(src)
  /\ target_bases' = collect_assign_lhs_names(src, lhs_pat)
  /\ pc' = "prune"
  /\ UNCHANGED <<src, lhs_pat, inplace, ports, decl_widths, stmt_i, replace_map,
                 final_map, repl_table, new_lines, pruned, diff_out, file>>

\* A variant that prunes the original text
Prune_original_text ==
  /\ pc = "prune"
  /\ pruned' = prune_unused_assigns_and_decls(src, target_bases)
  /\ pc' = "diff"
  /\ UNCHANGED <<src, lhs_pat, inplace, ports, decl_widths, stmt_i, replace_map,
                 final_map, repl_table, new_lines, target_bases, diff_out, file>>

\* pruned = prune_unused_assigns_and_decls(replaced, target_bases)
Prune ==
  /\ pc = "prune"
  /\ pruned' = prune_unused_assigns_and_decls(new_lines, target_bases)
  /\ pc' = "diff"
  /\ UNCHANGED <<src, lhs_pat, inplace, ports, decl_widths, stmt_i, replace_map,
                 final_map, repl_table, new_lines, target_bases, diff_out, file>>

\* A variant that goes on to the write whatever the flag
EmitDiff_always_write ==
  /\ pc = "diff"
  /\ diff_out' = <<src, pruned>>
  /\ \E flag \in BOOLEAN :
       /\ inplace' = flag
       /\ pc' = "write"
  /\ UNCHANGED <<src, lhs_pat, ports, decl_widths, stmt_i, replace_map,
                 final_map, repl_table, new_lines, target_bases, pruned, file>>

\* print(diff): the unified diff of orig and pruned; then args.inplace is
\* looked at.  The flag is an input of the run that nothing reads before this
\* point, so it is drawn here.
EmitDiff ==
  /\ pc = "diff"
  /\ diff_out' = <<src, pruned>>
  /\ \E flag \in BOOLEAN :
       /\ inplace' = flag
       /\ pc' = IF flag THEN "write" ELSE "done"
  /\ UNCHANGED <<src, lhs_pat, ports, decl_widths, stmt_i, replace_map,
                 final_map, repl_table, new_lines, target_bases, pruned, file>>

\* if args.inplace: f.write(pruned)
WriteBack ==
  /\ pc = "write"
  /\ file' = pruned
  /\ pc' = "done"
  /\ UNCHANGED <<src, lhs_pat, inplace, ports, decl_widths, stmt_i, replace_map,
                 final_map, repl_table, new_lines, target_bases, pruned, diff_out>>

Next ==
  \/ Scan
  \/ BuildStatement
  \/ BuildRaises
  \/ Resolve
  \/ BuildTable
  \/ RewriteAssign
  \/ RewriteDecl
  \/ RewriteOther
  \/ CollectTargets
  \/ Prune
  \/ EmitDiff
  \/ WriteBack

Spec == Init /\ [][Next]_vars

\* The resolver alone, on every alias map over the key pool
InitResolver ==
  /\ pc = "build"
  /\ src = <<>>
  /\ lhs_pat = {key[1] : key \in ResolverKeys}
  /\ inplace = FALSE
  /\ ports = {}
  /\ decl_widths = EmptyMap
  /\ stmt_i = 1
  /\ replace_map \in ResolverMaps
  /\ final_map = EmptyMap
  /\ repl_table = EmptyMap
  /\ new_lines = <<>>
  /\ target_bases = {}
  /\ pruned = <<>>
  /\ diff_out = <<>>
  /\ file = src

NextResolver == Resolve \/ BuildTable

SpecResolver == InitResolver /\ [][NextResolver]_vars

----------------------------------------------------------------------------
\* Reading an alias map as a graph, for the statements about the resolver

\* The key a token names
KeyOf(tok) == <<tok.name, IF tok.sel = <<>> THEN None ELSE tok.sel[1]>>

\* The token reached from tok after n hops of the map m (a token that is no
\* key is where the chain ends)
RECURSIVE TokenAfter(_, _, _)
TokenAfter(m, tok, n) ==
  IF n = 0 \/ KeyOf(tok) \notin DOMAIN m THEN tok
  ELSE TokenAfter(m, m[KeyOf(tok)].tok, n - 1)

\* The number of hops from tok to the end of its chain, at most n
RECURSIVE HopsFrom(_, _, _)
HopsFrom(m, tok, n) ==
  IF n = 0 \/ KeyOf(tok) \notin DOMAIN m THEN 0
  ELSE 1 + HopsFrom(m, m[KeyOf(tok)].tok, n - 1)

\* The number of inverting hops among the first n hops from tok
RECURSIVE InvertingHops(_, _, _)
InvertingHops(m, tok, n) ==
  IF n = 0 \/ KeyOf(tok) \notin DOMAIN m THEN 0
  ELSE (IF m[KeyOf(tok)].inv THEN 1 ELSE 0)
         + InvertingHops(m, m[KeyOf(tok)].tok, n - 1)

Size(m) == Cardinality(DOMAIN m)

\* The chain from key ends at a token that is no key
Acyclic(m, key) ==
  KeyOf(TokenAfter(m, render_token(key[1], key[2]), Size(m))) \notin DOMAIN m

\* The keys of the walk from key, in order: key itself, then one per hop
WalkKey(m, key, n) == KeyOf(TokenAfter(m, render_token(key[1], key[2]), n))

\* The first key the walk from key meets a second time (the walk is cyclic)
Revisited(m, key) ==
  LET n == CHOOSE q \in 1..Size(m) :
             /\ \E r \in 0..(q - 1) : WalkKey(m, key, r) = WalkKey(m, key, q)
             /\ \A q2 \in 1..(q - 1) :
                  \A r \in 0..(q2 - 1) : WalkKey(m, key, r) # WalkKey(m, key, q2)
  IN WalkKey(m, key, n)

Resolved == pc \in {"table", "rewrite", "prune", "diff", "write", "done"}

----------------------------------------------------------------------------
\* C1. Inversion parity: a key whose alias chain is acyclic resolves to the
\* token at the end of the chain, inverted exactly when the number of
\* inverting hops on the chain is odd.
C1_InversionParity ==
  Resolved =>
    \A key \in DOMAIN replace_map :
      Acyclic(replace_map, key) =>
        /\ key \in DOMAIN final_map
        /\ final_map[key].tok =
             TokenAfter(replace_map, render_token(key[1], key[2]), Size(replace_map))
        /\ final_map[key].inv =
             (InvertingHops(replace_map, render_token(key[1], key[2]),
                            Size(replace_map)) % 2 = 1)

\* a = ~b; b = ~c resolved: two inverting hops, a -> c uninverted
C1_Witness ==
  /\ Resolved
  /\ \E key \in DOMAIN replace_map :
       /\ Acyclic(replace_map, key)
       /\ HopsFrom(replace_map, render_token(key[1], key[2]), Size(replace_map)) = 2
       /\ InvertingHops(replace_map, render_token(key[1], key[2]), Size(replace_map)) = 2
       /\ final_map[key].inv = FALSE

\* C9. Idempotence of resolution: resolving the resolved map again gives the
\* same map, cycles included.
C9_Idempotent ==
  Resolved => make_final_map(final_map) = final_map

\* C10. Cycle resolution value: a key whose walk revisits a key resolves to
\* the revisited key's own token, uninverted.
C10_CycleUninverted ==
  Resolved =>
    \A key \in DOMAIN replace_map :
      ~Acyclic(replace_map, key) =>
        final_map[key] =
          Ref(render_token(Revisited(replace_map, key)[1],
                           Revisited(replace_map, key)[2]), FALSE)

----------------------------------------------------------------------------
\* Reading a text, for the statements about the rewrite and prune passes

\* line is a driving statement whose left-hand base is n
Drives(line, n) ==
  /\ IsAssign(line)
  /\ Len(AssignLhs(line)) = 1
  /\ IsWord(AssignLhs(line)[1])
  /\ AssignLhs(line)[1].name = n

\* line is a declaration whose name list declares n
Declares(line, n) ==
  IsDecl(line) /\ \E q \in DOMAIN DeclParts(line) : PartName(DeclParts(line)[q]) = n

\* The occurrences of the name n on a line
Occurrences(line, n) ==
  Cardinality({q \in DOMAIN Tokens(line) : Tokens(line)[q].name = n})

\* The occurrences of n in a text outside the driving statements whose
\* left-hand base it is and outside its own place in a declaration name list
RECURSIVE OutsideCount(_, _)
OutsideCount(text, n) ==
  IF text = <<>> THEN 0
  ELSE (IF Drives(Head(text), n) THEN 0
        ELSE IF Declares(Head(text), n) THEN Occurrences(Head(text), n) - 1
        ELSE Occurrences(Head(text), n))
       + OutsideCount(Tail(text), n)

\* The candidates: the names that match the pattern on the left-hand side of
\* a driving statement of the original text
Candidates == {n \in lhs_pat : \E j \in DOMAIN src : Drives(src[j], n)}

\* The names the declarations of a text declare
Declared(text) ==
  UNION {{PartName(DeclParts(text[j])[q]) : q \in DOMAIN DeclParts(text[j])} :
           j \in {q \in DOMAIN text : IsDecl(text[q])}} \ {""}

Rewritten == pc \in {"prune", "diff", "write", "done"}
PruneDone == pc \in {"diff", "write", "done"}

----------------------------------------------------------------------------
\* C2. Port immunity (deletion): every driving statement of the input whose
\* left-hand base is a port still has its driving statement in the final text.
C2_PortDriversKept ==
  PruneDone =>
    \A n \in ports :
      (\E j \in DOMAIN src : Drives(src[j], n))
        => \E q \in DOMAIN pruned : Drives(pruned[q], n)

\* C3. Alias-entry invariant: every base with an alias entry matches the
\* pattern and is no port; the replacement table has no key for a port; and
\* the rewrite pass leaves every reference to a port in place.
C3_AliasEntryInvariant ==
  /\ \A key \in DOMAIN replace_map : key[1] \in lhs_pat /\ key[1] \notin ports
  /\ \A tok \in DOMAIN repl_table : tok.name \notin ports
  /\ \A j \in DOMAIN new_lines :
       new_lines[j] # src[j] =>
         \A n \in ports : Occurrences(new_lines[j], n) >= Occurrences(src[j], n)

\* A statement drives the port c0, which matches the pattern, another reads
\* c0, and both have been rewritten
C3_Witness ==
  /\ Rewritten
  /\ \E n \in ports \cap lhs_pat :
       /\ \E j \in DOMAIN src : Drives(src[j], n)
       /\ \E j \in DOMAIN src :
            /\ IsAssign(src[j]) /\ ~Drives(src[j], n)
            /\ Occurrences(src[j], n) > 0
            /\ Occurrences(new_lines[j], n) > 0

\* C4. Pruning completeness: a candidate with no occurrence in the rewritten
\* text outside its own declaration and its own driving statements has no
\* driving statement and no declaration left in the final text.
C4_PruningCompleteness ==
  PruneDone =>
    \A n \in Candidates :
      OutsideCount(new_lines, n) = 0 =>
        \A q \in DOMAIN pruned : ~Drives(pruned[q], n) /\ ~Declares(pruned[q], n)

\* A dead candidate that was declared and driven in the rewritten text
C4_Witness ==
  /\ PruneDone
  /\ \E n \in Candidates :
       /\ OutsideCount(new_lines, n) = 0
       /\ \E j \in DOMAIN new_lines : Drives(new_lines[j], n)
       /\ \E j \in DOMAIN new_lines :
            Declares(new_lines[j], n) /\ Len(DeclParts(new_lines[j])) > 1
       /\ pruned # new_lines

\* C5. Live nets are kept: a candidate with an occurrence in the rewritten
\* text outside its own declaration and its own driving statements keeps its
\* driving statements and its place in its declaration.
C5_LiveKept ==
  PruneDone =>
    \A n \in Candidates :
      OutsideCount(new_lines, n) >= 1 =>
        /\ \A j \in DOMAIN new_lines :
             Drives(new_lines[j], n) => new_lines[j] \in Range(pruned)
        /\ \A j \in DOMAIN new_lines :
             Declares(new_lines[j], n) => \E q \in DOMAIN pruned : Declares(pruned[q], n)

\* The names the prune pass finds dead
DeadNames == ToRemove(new_lines, Candidates)

\* The parts of a declaration whose name is not among dead, in their order
LiveParts(line, dead) ==
  SelectSeq(DeclParts(line), LAMBDA part : PartName(part) \notin dead)

\* The declaration with its live parts only
Reassembled(line, dead) ==
  SubSeq(line, 1, DeclNamesStart(line) - 1)
    \o JoinWith(LiveParts(line, dead), P(",")) \o <<P(";")>>

\* C6. The prune pass removes only candidate names: a declared name that
\* does not match the pattern stays declared; the declarations of the final
\* text are, in order, those of the rewritten text that have a name that is
\* not dead, each with its dead names taken out and the others in their order.
C6_OnlyCandidatesRemoved ==
  PruneDone =>
    LET dead == DeadNames
        before == SelectSeq(new_lines,
                            LAMBDA l : IsDecl(l) /\ LiveParts(l, dead) # <<>>)
    IN /\ \A n \in Declared(new_lines) \ lhs_pat : n \in Declared(pruned)
       /\ SelectSeq(pruned, IsDecl)
            = [j \in DOMAIN before |-> Reassembled(before[j], dead)]

\* A mixed declaration lost a dead name and kept the others, among them a
\* name no statement references
C6_Witness ==
  /\ PruneDone
  /\ \E j \in DOMAIN new_lines :
       /\ IsDecl(new_lines[j])
       /\ Len(LiveParts(new_lines[j], DeadNames)) >= 2
       /\ Len(LiveParts(new_lines[j], DeadNames)) < Len(DeclParts(new_lines[j]))
       /\ \E q \in DOMAIN LiveParts(new_lines[j], DeadNames) :
            LET n == PartName(LiveParts(new_lines[j], DeadNames)[q])
            IN n \notin lhs_pat /\ OutsideCount(new_lines, n) = 0

----------------------------------------------------------------------------
\* Reading a driving statement, for the statements about replication

\* line is assign x = {N{p}}; with x a single reference and p a net or a bit
PlainReplication(line) ==
  /\ IsAssign(line)
  /\ Len(AssignLhs(line)) = 1 /\ IsWord(AssignLhs(line)[1])
  /\ Len(AssignRhs(line)) = 6
  /\ AssignRhs(line)[1] = P("{") /\ AssignRhs(line)[2].k = "n"
  /\ AssignRhs(line)[3] = P("{") /\ IsWord(AssignRhs(line)[4])
  /\ Len(AssignRhs(line)[4].sel) <= 1
  /\ AssignRhs(line)[5] = P("}") /\ AssignRhs(line)[6] = P("}")

ReplCount(line) == AssignRhs(line)[2].sel[1]
ReplUnit(line) == AssignRhs(line)[4]
LhsRef(line) == AssignLhs(line)[1]

\* The bit positions a left-hand reference stands for: its index, the bits
\* of its slice, the bits of its literal declared range when it is bare, and
\* the single position None otherwise
LhsPositions(ref) ==
  IF Len(ref.sel) = 1 THEN {ref.sel[1]}
  ELSE IF Len(ref.sel) = 2
       THEN Lower(ref.sel[1], ref.sel[2])..Higher(ref.sel[1], ref.sel[2])
  ELSE IF ref.name \in DOMAIN decl_widths /\ Len(decl_widths[ref.name].sel) = 2
       THEN Lower(decl_widths[ref.name].sel[1], decl_widths[ref.name].sel[2])
              ..Higher(decl_widths[ref.name].sel[1], decl_widths[ref.name].sel[2])
  ELSE {None}

\* A replication statement on a candidate that is no port
CandidateReplication(line) ==
  /\ PlainReplication(line)
  /\ LhsRef(line).name \in lhs_pat
  /\ LhsRef(line).name \notin ports

WideEnough(line) == ReplCount(line) >= Cardinality(LhsPositions(LhsRef(line)))

\* The n-th driving statement of the input
Stmt(n) == src[AssignLines(src)[n]]

\* The alias map after the first n driving statements
RECURSIVE MapAfter(_)
MapAfter(n) ==
  IF n = 0 THEN EmptyMap
  ELSE BuildOne(MapAfter(n - 1), Stmt(n), lhs_pat, ports, decl_widths)

\* C7. Width-consistent replication.  Right after assign x = {N{p}} on a
\* candidate x with L bit positions is processed: if N >= L every bit of x
\* has the entry (p, uninverted); if N < L the alias map is what it was before
\* the statement.
C7_ReplicationStep ==
  (pc = "build" /\ stmt_i > 1 /\ CandidateReplication(Stmt(stmt_i - 1))) =>
    IF WideEnough(Stmt(stmt_i - 1))
    THEN \A i \in LhsPositions(LhsRef(Stmt(stmt_i - 1))) :
           /\ <<LhsRef(Stmt(stmt_i - 1)).name, i>> \in DOMAIN replace_map
           /\ replace_map[<<LhsRef(Stmt(stmt_i - 1)).name, i>>]
                = Ref(ReplUnit(Stmt(stmt_i - 1)), FALSE)
    ELSE replace_map = MapAfter(stmt_i - 2)

\* Once resolved: when the last driving statement of x is a replication of a
\* net p that has no alias entry and N >= L, every bit of x resolves to p
\* uninverted.
C7_ResolvesToUnit ==
  Resolved =>
    LET al == AssignLines(src)
    IN \A n \in DOMAIN al :
         LET line == src[al[n]]
         IN ( /\ CandidateReplication(line)
              /\ WideEnough(line)
              /\ KeyOf(ReplUnit(line)) \notin DOMAIN replace_map
              /\ \A q \in DOMAIN al :
                   q > n => ~Drives(src[al[q]], LhsRef(line).name) )
            => \A i \in LhsPositions(LhsRef(line)) :
                 final_map[<<LhsRef(line).name, i>>] = Ref(ReplUnit(line), FALSE)

\* When every driving statement of x is a replication with N < L, x has no
\* alias entry and no key in the replacement table, and every rewritten line
\* still has the references to x it had (the rewrite of another net may add
\* references to x).
C7_RejectedUnrewritten ==
  LET al == AssignLines(src)
      short == {n \in DOMAIN al : /\ CandidateReplication(src[al[n]])
                                  /\ ~WideEnough(src[al[n]])}
  IN \A n \in short :
       LET x == LhsRef(src[al[n]]).name
       IN (\A q \in DOMAIN al : Drives(src[al[q]], x) => q \in short)
          => /\ (pc # "scan" /\ ~(pc = "build" /\ stmt_i <= Len(al)))
                  => \A key \in DOMAIN replace_map : key[1] # x
             /\ \A tok \in DOMAIN repl_table : tok.name # x
             /\ \A j \in DOMAIN new_lines :
                  new_lines[j] # src[j] =>
                    Occurrences(new_lines[j], x) >= Occurrences(src[j], x)

----------------------------------------------------------------------------
\* Reading a vector reference, for the statements about rewriting

TableBuilt == pc \in {"rewrite", "prune", "diff", "write", "done"}

\* x is a slice, or (on the right-hand side of a driving statement) a bare
\* vector with a literal declared width that has no table entry of its own
VectorReference(x, on_rhs) ==
  /\ IsWord(x)
  /\ \/ Len(x.sel) = 2
     \/ /\ on_rhs
        /\ x.sel = <<>>
        /\ x \notin DOMAIN repl_table
        /\ x.name \in DOMAIN decl_widths
        /\ Len(decl_widths[x.name].sel) = 2

\* The bit positions from first to last, in the order written
BitsInOrder(first, last) ==
  [j \in 1..(Higher(first, last) - Lower(first, last) + 1) |->
     IF first >= last THEN first - j + 1 ELSE first + j - 1]

BitsOfReference(x) ==
  IF Len(x.sel) = 2 THEN BitsInOrder(x.sel[1], x.sel[2])
  ELSE BitsInOrder(decl_widths[x.name].sel[1], decl_widths[x.name].sel[2])

\* The reference substituted bit by bit: the table text of each bit, the bit
\* itself where the table has none
SubstitutedBits(x) ==
  [j \in DOMAIN BitsOfReference(x) |->
     IF Ix(x.name, BitsOfReference(x)[j]) \in DOMAIN repl_table
     THEN repl_table[Ix(x.name, BitsOfReference(x)[j])]
     ELSE <<Ix(x.name, BitsOfReference(x)[j])>>]

SingleBit(part) == Len(part) = 1 /\ IsWord(part[1]) /\ Len(part[1].sel) = 1

\* Indexed bits of one base, each one above or each one below its predecessor
ContiguousRun(parts) ==
  /\ \A j \in DOMAIN parts : SingleBit(parts[j]) /\ parts[j][1].name = parts[1][1].name
  /\ \/ \A j \in 1..(Len(parts) - 1) : parts[j + 1][1].sel[1] = parts[j][1].sel[1] + 1
     \/ \A j \in 1..(Len(parts) - 1) : parts[j + 1][1].sel[1] = parts[j][1].sel[1] - 1

RECURSIVE CommaSeparated(_)
CommaSeparated(parts) ==
  IF Len(parts) = 1 THEN parts[1]
  ELSE parts[1] \o <<P(",")>> \o CommaSeparated(Tail(parts))

\* The rendering of two or more substituted tokens
ExpectedRendering(parts) ==
  IF \A j \in DOMAIN parts : parts[j] = parts[1]
  THEN <<P("{"), Num(Len(parts)), P("{")>> \o parts[1] \o <<P("}"), P("}")>>
  ELSE IF ContiguousRun(parts)
  THEN <<Sl(parts[1][1].name,
            Higher(parts[1][1].sel[1], parts[Len(parts)][1].sel[1]),
            Lower(parts[1][1].sel[1], parts[Len(parts)][1].sel[1]))>>
  ELSE <<P("{")>> \o CommaSeparated(parts) \o <<P("}")>>

\* The text of a line that is substituted: the right-hand side of a driving
\* statement, the whole of any other line that is no declaration
SubstitutedText(line) ==
  IF IsAssign(line) THEN AssignRhs(line)
  ELSE IF IsDecl(line) THEN <<>> ELSE line

\* C8. Slice reconstitution.  A vector reference of two or more bits that is
\* substituted bit by bit is rendered as a replication {n{tok}} when all the
\* substituted tokens are identical, else as one slice base[hi:lo] when they
\* are indexed bits of one base in a contiguous ascending or descending run,
\* else as the concatenation of the tokens in order; and a driving statement
\* whose right-hand side is just that reference gets that rendering as its
\* new right-hand side.
C8_SliceReconstitution ==
  TableBuilt =>
    /\ \A j \in DOMAIN src :
         \A x \in Range(SubstitutedText(src[j])) :
           (VectorReference(x, IsAssign(src[j])) /\ Len(SubstitutedBits(x)) >= 2)
           => _replace_token(x, repl_table, decl_widths, IsAssign(src[j]))
                = ExpectedRendering(SubstitutedBits(x))
    /\ \A j \in DOMAIN new_lines :
         ( /\ IsAssign(src[j])
           /\ Len(AssignRhs(src[j])) = 1
           /\ VectorReference(AssignRhs(src[j])[1], TRUE)
           /\ Len(SubstitutedBits(AssignRhs(src[j])[1])) >= 2 )
         => AssignRhs(new_lines[j])
              = ExpectedRendering(SubstitutedBits(AssignRhs(src[j])[1]))

\* A reader of a vector whose bits all resolved to a descending run of
\* another base was rewritten to one slice of that base
C8_Witness ==
  /\ Rewritten
  /\ \E j \in DOMAIN src :
       /\ IsAssign(src[j])
       /\ Len(AssignRhs(src[j])) = 1
       /\ VectorReference(AssignRhs(src[j])[1], TRUE)
       /\ Len(SubstitutedBits(AssignRhs(src[j])[1])) >= 2
       /\ \A b \in Range(BitsOfReference(AssignRhs(src[j])[1])) :
            Ix(AssignRhs(src[j])[1].name, b) \in DOMAIN repl_table
       /\ ContiguousRun(SubstitutedBits(AssignRhs(src[j])[1]))
       /\ Len(AssignRhs(new_lines[j])) = 1
       /\ Len(AssignRhs(new_lines[j])[1].sel) = 2
       /\ AssignRhs(new_lines[j])[1].name # AssignRhs(src[j])[1].name

----------------------------------------------------------------------------
\* The walks of the resolver

NoRepeat(q) == \A i, j \in DOMAIN q : q[i] = q[j] => i = j

----------------------------------------------------------------------------
\* The entries of the driving statements, one statement at a time

\* build_replace_map has gone through every driving statement
BuildDone ==
  /\ pc \notin {"scan", "raised"}
  /\ ~(pc = "build" /\ stmt_i <= Len(AssignLines(src)))

\* The entries statement n writes, as the map it gives on its own (empty
\* when the statement is skipped)
WrittenBy(n) == BuildOne(EmptyMap, Stmt(n), lhs_pat, ports, decl_widths)

\* C12. Last writer wins per bit.  After build_replace_map the entry of
\* every key is the one written by the last statement, in source order, that
\* writes the key; a key written by any statement has an entry, so entries
\* of other bits written by earlier statements are kept.
C12_LastWriterWins ==
  BuildDone =>
    LET w == [n \in DOMAIN AssignLines(src) |-> WrittenBy(n)]
    IN /\ \A key \in DOMAIN replace_map :
            \E n \in DOMAIN w :
              /\ key \in DOMAIN w[n]
              /\ \A q \in DOMAIN w : q > n => key \notin DOMAIN w[q]
              /\ replace_map[key] = w[n][key]
       /\ \A n \in DOMAIN w : DOMAIN w[n] \subseteq DOMAIN replace_map

\* Two statements wrote one bit with different entries, the later one's is
\* in the map, and another bit of the base that only the earlier one wrote
\* has the earlier one's
C12_Witness ==
  /\ BuildDone
  /\ \E n, q \in DOMAIN AssignLines(src) :
       /\ n < q
       /\ \E key \in DOMAIN WrittenBy(n) \cap DOMAIN WrittenBy(q) :
            /\ WrittenBy(n)[key] # WrittenBy(q)[key]
            /\ replace_map[key] = WrittenBy(q)[key]
            /\ \E other \in DOMAIN WrittenBy(n) \ DOMAIN WrittenBy(q) :
                 /\ other[1] = key[1]
                 /\ replace_map[other] = WrittenBy(n)[other]

----------------------------------------------------------------------------
\* The scenarios of the test suite

\* The result test_slice_and_vector_copy expects: the header, one driving
\* statement, endmodule
SliceCopyExpected ==
  SubSeq(SliceCopyHeader, 1, 4)
    \o <<Asg(<<W("x_cpy1")>>, <<Sl("bus_in", 7, 4)>>)>> \o Footer

\* C13. Whole-vector chain scenario.  With assign x_cpy1 = x_pow1; and
\* assign x_pow1[3:0] = bus_in[7:4]; in either order, x_pow1 declared [3:0]
\* and both names matching the pattern, the final text has one driving
\* statement, assign x_cpy1 = bus_in[7:4];, and neither the driving
\* statement nor the declaration of x_pow1.
C13_WholeVectorChain ==
  (src \in SliceCopyInputs /\ lhs_pat = SliceCopyPattern /\ PruneDone) =>
    /\ pruned = SliceCopyExpected
    /\ Cardinality({j \in DOMAIN pruned : IsAssign(pruned[j])}) = 1
    /\ \A j \in DOMAIN pruned :
         /\ ~Drives(pruned[j], "x_pow1")
         /\ ~Declares(pruned[j], "x_pow1")
         /\ IsAssign(pruned[j]) =>
              /\ Drives(pruned[j], "x_cpy1")
              /\ AssignRhs(pruned[j]) = <<Sl("bus_in", 7, 4)>>
    /\ (pc = "done" /\ inplace) => file = pruned

\* The run on the input that has the statement of x_cpy1 first wrote the
\* collapsed text to the file
C13_Witness ==
  /\ src = SliceCopyHeader \o <<SliceCopyCpy, SliceCopyPow>> \o Footer
  /\ lhs_pat = SliceCopyPattern
  /\ pc = "done"
  /\ inplace
  /\ file = SliceCopyExpected
  /\ file # src

----------------------------------------------------------------------------
\* Whole-vector copies

LiteralWidth(n) == n \in DOMAIN decl_widths /\ Len(decl_widths[n].sel) = 2

\* line is assign a = b; with a a candidate that is no port and a, b bare
\* names declared with the same literal range
VectorCopy(line) ==
  /\ IsAssign(line)
  /\ Len(AssignLhs(line)) = 1 /\ IsWord(AssignLhs(line)[1])
  /\ AssignLhs(line)[1].sel = <<>>
  /\ Len(AssignRhs(line)) = 1 /\ IsWord(AssignRhs(line)[1])
  /\ AssignRhs(line)[1].sel = <<>>
  /\ AssignLhs(line)[1].name \in lhs_pat \ ports
  /\ LiteralWidth(AssignLhs(line)[1].name)
  /\ LiteralWidth(AssignRhs(line)[1].name)
  /\ decl_widths[AssignLhs(line)[1].name] = decl_widths[AssignRhs(line)[1].name]

\* C14. Per-bit expansion of a whole-vector right-hand side.  Right after a
\* statement assign a = b; between vectors of one literal width is
\* processed, the entry of every bit i of a is bit i of b, uninverted.
C14_PerBitExpansion ==
  (pc = "build" /\ stmt_i > 1 /\ VectorCopy(Stmt(stmt_i - 1))) =>
    \A i \in LhsPositions(LhsRef(Stmt(stmt_i - 1))) :
      /\ <<LhsRef(Stmt(stmt_i - 1)).name, i>> \in DOMAIN replace_map
      /\ replace_map[<<LhsRef(Stmt(stmt_i - 1)).name, i>>]
           = Ref(Ix(AssignRhs(Stmt(stmt_i - 1))[1].name, i), FALSE)

----------------------------------------------------------------------------
\* Statement shapes

\* C15. Unrecognized statement shapes are never errors.  Whatever the
\* driving statements of the input, the run never leaves by an exception.
C15_NoException == pc # "raised"

----------------------------------------------------------------------------
\* The lines of the rewrite pass

\* C16. Rewrite-pass frame.  The rewritten form of a driving statement is a
\* driving statement of the same left-hand base (the left-hand side is the
\* original one, or the bare base when the original was the slice of the
\* whole declared range) with the original trailing comment; the rewritten
\* form of a declaration line is the line itself.
C16_RewriteFrame ==
  \A j \in DOMAIN new_lines :
    /\ IsAssign(src[j]) =>
         /\ IsAssign(new_lines[j])
         /\ Len(AssignLhs(new_lines[j])) = 1
         /\ IsWord(AssignLhs(new_lines[j])[1])
         /\ AssignLhs(new_lines[j])[1].name = AssignLhs(src[j])[1].name
         /\ \/ AssignLhs(new_lines[j]) = AssignLhs(src[j])
            \/ /\ AssignLhs(new_lines[j])[1].sel = <<>>
               /\ LiteralWidth(AssignLhs(src[j])[1].name)
               /\ AssignLhs(src[j])[1].sel
                    = decl_widths[AssignLhs(src[j])[1].name].sel
         /\ AssignComment(new_lines[j]) = AssignComment(src[j])
    /\ (IsDecl(src[j]) /\ ~IsAssign(src[j])) => new_lines[j] = src[j]

\* A statement whose left-hand token is a key of the table was rewritten, a
\* statement with a comment naming a key had its right-hand side changed,
\* and a declaration naming a key was copied
C16_Witness ==
  /\ Rewritten
  /\ \E j \in DOMAIN src :
       /\ IsAssign(src[j])
       /\ AssignLhs(src[j])[1] \in DOMAIN repl_table
  /\ \E j \in DOMAIN src :
       /\ IsAssign(src[j])
       /\ AssignComment(src[j]) # <<>>
       /\ W(AssignComment(src[j])[1].name) \in DOMAIN repl_table
       /\ AssignRhs(new_lines[j]) # AssignRhs(src[j])
       /\ AssignComment(new_lines[j]) = AssignComment(src[j])
  /\ \E j \in DOMAIN src :
       /\ IsDecl(src[j])
       /\ \E tok \in DOMAIN repl_table : Declares(src[j], tok.name)

----------------------------------------------------------------------------
\* Liveness of a candidate before and after the rewrite pass

\* The result test_remove_only_target_from_mixed_decl expects
MixedDeclExpected ==
  <<MixedDeclInput[1],
    <<W("wire"), W("keep_me"), P(","), W("also_keep"), P(";")>>,
    Asg(<<W("c0")>>, <<W("s"), P("&"), W("keep_me")>>)>> \o Footer

\* n is referenced in the original text and nowhere in the rewritten text
SubstitutedAway(n) ==
  /\ n \in Candidates
  /\ OutsideCount(src, n) > 0
  /\ OutsideCount(new_lines, n) = 0

\* C17. Liveness is decided after rewriting.  A candidate that the original
\* text references but the rewritten text does not is pruned in the same
\* run: the final text has no occurrence of it; and the input
\* with assign c0 = copy0 & keep_me; ends as the text its test expects.
C17_LivenessAfterRewrite ==
  PruneDone =>
    /\ \A n \in lhs_pat :
         SubstitutedAway(n) =>
           \A q \in DOMAIN pruned : Occurrences(pruned[q], n) = 0
    /\ (src = MixedDeclInput /\ lhs_pat = MixedDeclPattern)
         => pruned = MixedDeclExpected

\* A candidate whose only reference stood inside a larger expression was
\* substituted and pruned
C17_Witness ==
  /\ PruneDone
  /\ \E n \in lhs_pat :
       /\ SubstitutedAway(n)
       /\ \E j \in DOMAIN src :
            /\ IsAssign(src[j])
            /\ ~Drives(src[j], n)
            /\ Len(AssignRhs(src[j])) > 1
            /\ W(n) \in Range(AssignRhs(src[j]))
       /\ \E j \in DOMAIN src : Declares(src[j], n)
       /\ \A q \in DOMAIN pruned : Occurrences(pruned[q], n) = 0

----------------------------------------------------------------------------
\* Inversion markers in a rewritten right-hand side

\* expr with every run of adjacent inversion markers cut to its parity: no
\* marker for an even run, one for an odd run
CancelledPairwise(expr) ==
  LET Pending(odd) == IF odd THEN <<P("~")>> ELSE <<>>
      RECURSIVE Go(_, _)
      Go(j, odd) ==
        IF j > Len(expr) THEN Pending(odd)
        ELSE IF IsP(expr[j], "~") THEN Go(j + 1, ~odd)
        ELSE Pending(odd) \o <<expr[j]>> \o Go(j + 1, FALSE)
  IN Go(1, FALSE)

NoAdjacentMarkers(expr) ==
  \A j \in 1..(Len(expr) - 1) : ~(IsP(expr[j], "~") /\ IsP(expr[j + 1], "~"))

\* The result test_double_invert_chain expects
DoubleInvertExpected ==
  SubSeq(DoubleInvertInput, 1, 4)
    \o <<<<W("wire"), W("p_abc"), P(";")>>,
         Asg(<<W("p_abc")>>, <<W("p_abc_in")>>),
         Asg(<<W("p_abc_copy")>>, <<W("p_abc")>>)>> \o Footer

\* C18. Double-inversion collapse.  The right-hand side of every rewritten
\* driving statement has no two adjacent inversion markers and is the
\* substituted right-hand side with every run of markers cut to its parity;
\* a right-hand side ~m whose m has the table text ~p is rendered p; and the
\* input with assign m_abc = ~p_abc; and a reader ~m_abc ends as the text
\* its test expects.
C18_DoubleInversionCollapse ==
  /\ \A j \in DOMAIN new_lines :
       IsAssign(src[j]) =>
         /\ NoAdjacentMarkers(AssignRhs(new_lines[j]))
         /\ AssignRhs(new_lines[j])
              = CancelledPairwise(SubstituteTokens(AssignRhs(src[j]), repl_table,
                                                   decl_widths, TRUE))
         /\ ( /\ Len(AssignRhs(src[j])) = 2
              /\ IsP(AssignRhs(src[j])[1], "~")
              /\ AssignRhs(src[j])[2] \in DOMAIN repl_table
              /\ Len(repl_table[AssignRhs(src[j])[2]]) = 2 )
            => AssignRhs(new_lines[j]) = <<repl_table[AssignRhs(src[j])[2]][2]>>
  /\ (PruneDone /\ src = DoubleInvertInput /\ lhs_pat = DoubleInvertPattern)
       => pruned = DoubleInvertExpected

\* A reader with three markers before a net whose table text is inverted
\* was rewritten to the bare source
C18_Witness ==
  /\ Rewritten
  /\ \E j \in DOMAIN new_lines :
       /\ IsAssign(src[j])
       /\ Len(AssignRhs(src[j])) = 4
       /\ AssignRhs(src[j])[4] \in DOMAIN repl_table
       /\ Len(repl_table[AssignRhs(src[j])[4]]) = 2
       /\ ~NoAdjacentMarkers(SubstituteTokens(AssignRhs(src[j]), repl_table,
                                              decl_widths, TRUE))
       /\ AssignRhs(new_lines[j]) = <<repl_table[AssignRhs(src[j])[4]][2]>>

----------------------------------------------------------------------------
\* The ports a module header declares

\* The names of the port list of the header, which ends at the first ";":
\* after a direction keyword every name that is no qualifier is a port,
\* the names after a comma included
HeaderPorts(text) ==
  LET S == Flatten(text)
      RECURSIVE Go(_, _)
      Go(j, in_list) ==
        IF j > Len(S) \/ IsP(S[j], ";") THEN {}
        ELSE IF IsKw(S[j], Directions) THEN Go(j + 1, TRUE)
        ELSE IF in_list /\ IsWord(S[j]) /\ ~IsKw(S[j], PortQualifiers)
             THEN {S[j].name} \cup Go(j + 1, TRUE)
        ELSE Go(j + 1, in_list)
  IN Go(1, FALSE)

\* C19. Port scanner completeness.  Once the ports are scanned, every name
\* the header declares as a port is in the port set, the second and later
\* names of a list sharing one direction keyword included, and no alias key
\* has such a name as its base.
C19_PortsComplete ==
  pc # "scan" =>
    /\ HeaderPorts(src) \subseteq ports
    /\ \A key \in DOMAIN replace_map : key[1] \notin HeaderPorts(src)

----------------------------------------------------------------------------
\* What a run emits and writes

\* C20. Output gating.  A run that got past the prune pass has emitted the
\* diff of the original and the final text; the file holds the original text
\* until the run is done, and then the final text when the in-place flag is
\* set and the original text otherwise.
C20_OutputGating ==
  /\ pc \in {"write", "done"} => diff_out = <<src, pruned>>
  /\ pc # "done" => file = src
  /\ pc = "done" => file = (IF inplace THEN pruned ELSE src)

\* A run without the flag changed the text, emitted the diff and left the
\* file as it was
C20_Witness ==
  /\ pc = "done"
  /\ ~inplace
  /\ pruned # src
  /\ diff_out = <<src, pruned>>
  /\ file = src

-----------------------------------------------------------------------------
\* Statement acceptance

\* A driving statement whose left-hand side is one reference to a candidate
\* that is no port
CandidateStatement(line) ==
  /\ IsAssign(line)
  /\ Len(AssignLhs(line)) = 1 /\ IsWord(AssignLhs(line)[1])
  /\ LhsRef(line).name \in lhs_pat
  /\ LhsRef(line).name \notin ports

\* The right-hand side without its leading inversion marker
Uninverted(rhs) == IF Len(rhs) >= 2 /\ IsP(rhs[1], "~") THEN Tail(rhs) ELSE rhs

\* The right-hand side is one literal slice, inverted or not
SliceRhs(line) ==
  /\ Len(Uninverted(AssignRhs(line))) = 1
  /\ IsWord(Uninverted(AssignRhs(line))[1])
  /\ Len(Uninverted(AssignRhs(line))[1].sel) = 2

SliceLength(line) ==
  Higher(Uninverted(AssignRhs(line))[1].sel[1], Uninverted(AssignRhs(line))[1].sel[2])
    - Lower(Uninverted(AssignRhs(line))[1].sel[1], Uninverted(AssignRhs(line))[1].sel[2])
    + 1

\* The recognized right-hand shapes: a name, an indexed bit, a slice or a
\* replication, inverted or not
RecognizedRhs(line) ==
  \/ Len(Uninverted(AssignRhs(line))) = 1 /\ IsWord(Uninverted(AssignRhs(line))[1])
  \/ IsReplication(Uninverted(AssignRhs(line)))

\* The keys of the left-hand bit positions of a statement
LhsKeys(line) == {<<LhsRef(line).name, i>> : i \in LhsPositions(LhsRef(line))}

\* C21. Statement acceptance is all-or-nothing.  Right after a driving
\* statement with a candidate left-hand base that is no port is processed,
\* either every left-hand bit position has an entry, no other key was added
\* and the entries of all other keys are what they were, or the alias map is
\* what it was before the statement; it is what it was before when the
\* right-hand side is a slice whose length differs from the left-hand bit
\* count and when the right-hand side has none of the recognized shapes.
C21_AllOrNothing ==
  (pc = "build" /\ stmt_i > 1 /\ CandidateStatement(Stmt(stmt_i - 1))) =>
    LET line == Stmt(stmt_i - 1)
        before == MapAfter(stmt_i - 2)
    IN /\ \/ replace_map = before
          \/ /\ DOMAIN replace_map = DOMAIN before \cup LhsKeys(line)
             /\ \A key \in DOMAIN before \ LhsKeys(line) :
                  replace_map[key] = before[key]
       /\ (SliceRhs(line) /\ SliceLength(line) # Cardinality(LhsKeys(line)))
            => replace_map = before
       /\ ~RecognizedRhs(line) => replace_map = before

\* v = {2{s}} recorded both bits of v, then v[1:0] = bus[3:1] recorded
\* nothing and left them as they were
C21_Witness ==
  /\ pc = "build" /\ stmt_i = 3
  /\ Stmt(1) = Asg(<<W("v")>>, Repl(2, <<W("s")>>))
  /\ Stmt(2) = Asg(<<Sl("v", 1, 0)>>, <<Sl("bus", 3, 1)>>)
  /\ CandidateStatement(Stmt(2))
  /\ replace_map = MapAfter(1)
  /\ DOMAIN replace_map = {<<"v", 0>>, <<"v", 1>>}
  /\ \A key \in DOMAIN replace_map : replace_map[key] = Ref(W("s"), FALSE)

\* A driving statement whose left-hand side is a bare name
BareLhs(line) == CandidateStatement(line) /\ LhsRef(line).sel = <<>>

\* A statement the builder takes: its right-hand side gives a list of entries
\* for the left-hand bit count
Accepted(line) ==
  explode_rhs_as_refs(AssignRhs(line), Cardinality(LhsKeys(line))) # <<>>

HasLiteralRange(name) ==
  name \in DOMAIN decl_widths /\ Len(decl_widths[name].sel) = 2

\* The bit indexes of a literal declared range, first declared bound first
DeclaredOrder(name) ==
  LET hi == decl_widths[name].sel[1]
      lo == decl_widths[name].sel[2]
  IN [j \in 1..(Higher(hi, lo) - Lower(hi, lo) + 1) |->
        IF hi >= lo THEN hi - (j - 1) ELSE hi + (j - 1)]

\* C22. Bare left-hand-side expansion.  Right after an accepted driving
\* statement with a bare left-hand name is processed: when the name has a
\* literal declared range, the j-th bit of the range in declared order has
\* the j-th entry of the parsed right-hand list and the name has no entry
\* under the none position; when the name has no declared range, or one that
\* holds an expression, the statement added no key but the none position of
\* the name, which has the single parsed entry.
C22_BareLhsExpansion ==
  (pc = "build" /\ stmt_i > 1 /\ BareLhs(Stmt(stmt_i - 1))
     /\ Accepted(Stmt(stmt_i - 1))) =>
    LET line == Stmt(stmt_i - 1)
        x == LhsRef(line).name
        before == MapAfter(stmt_i - 2)
    IN IF HasLiteralRange(x)
       THEN LET ids == DeclaredOrder(x)
                refs == explode_rhs_as_refs(AssignRhs(line), Len(ids))
            IN /\ \A j \in DOMAIN ids :
                    /\ <<x, ids[j]>> \in DOMAIN replace_map
                    /\ replace_map[<<x, ids[j]>>] = refs[j]
               /\ <<x, None>> \notin DOMAIN replace_map
               /\ DOMAIN replace_map \ DOMAIN before
                    \subseteq {<<x, ids[j]>> : j \in DOMAIN ids}
       ELSE /\ <<x, None>> \in DOMAIN replace_map
            /\ replace_map[<<x, None>>] = explode_rhs_as_refs(AssignRhs(line), 1)[1]
            /\ DOMAIN replace_map \ DOMAIN before \subseteq {<<x, None>>}
            /\ \A key \in DOMAIN before \ {<<x, None>>} :
                 replace_map[key] = before[key]

\* w, declared [W-1:0], got one entry under the none position; then r,
\* declared [0:1], got bus[3] under bit 0 and bus[2] under bit 1 and nothing
\* under the none position
C22_Witness ==
  /\ pc = "build" /\ stmt_i = 3
  /\ Stmt(1) = Asg(<<W("w")>>, <<W("s")>>)
  /\ Stmt(2) = Asg(<<W("r")>>, <<Sl("bus", 3, 2)>>)
  /\ BareLhs(Stmt(2)) /\ Accepted(Stmt(2))
  /\ decl_widths["w"] = SymRng("W") /\ decl_widths["r"] = Rng(0, 1)
  /\ DOMAIN replace_map = {<<"w", None>>, <<"r", 0>>, <<"r", 1>>}
  /\ replace_map[<<"w", None>>] = Ref(W("s"), FALSE)
  /\ replace_map[<<"r", 0>>] = Ref(Ix("bus", 3), FALSE)
  /\ replace_map[<<"r", 1>>] = Ref(Ix("bus", 2), FALSE)

-----------------------------------------------------------------------------
\* Shape of the resolved map

\* The resolved map has the keys of the alias map, and the resolved token of
\* a key whose chain is acyclic is no key
C23_Shape ==
  Resolved =>
    /\ DOMAIN final_map = DOMAIN replace_map
    /\ \A key \in DOMAIN replace_map :
         Acyclic(replace_map, key) =>
           KeyOf(final_map[key].tok) \notin DOMAIN replace_map

\* C23. Resolved-map shape.  make_final_map returns a map with exactly the
\* key set of the alias map it was given, the step that computes it leaves
\* the alias map as it was, and for every key whose chain is acyclic the
\* resolved token is not itself a key of the map.
C23_ResolvedMapShape ==
  /\ [](C23_Shape)
  /\ [][(pc = "build" /\ pc' = "table") => replace_map' = replace_map]_vars

\* a -> b -> p was resolved: both keys are kept and both resolve to p, which
\* is no key
C23_Witness ==
  /\ pc = "table"
  /\ DOMAIN replace_map = {<<"a", None>>, <<"b", None>>}
  /\ replace_map[<<"a", None>>].tok = W("b")
  /\ replace_map[<<"b", None>>].tok = W("p")
  /\ DOMAIN final_map = {<<"a", None>>, <<"b", None>>}
  /\ final_map[<<"a", None>>].tok = W("p")
  /\ final_map[<<"b", None>>].tok = W("p")

-----------------------------------------------------------------------------
\* Candidates of the prune pass

\* Every driving statement of n in the input has a right-hand side of no
\* recognized shape, and the input has no other reference to n
OnlyUnsupportedDrivers(n) ==
  /\ \A j \in DOMAIN src : Drives(src[j], n) => ~RecognizedRhs(src[j])
  /\ OutsideCount(src, n) = 0

\* C24. Candidate set for pruning.  The names handed to the prune pass are
\* exactly the names that match the pattern on the left-hand side of a
\* driving statement of the original text, with or without an alias entry;
\* a candidate whose driving statements all have an unsupported right-hand
\* side and that has no other reference in the input has no driving
\* statement and no declaration fragment in the final text.
C24_PruneCandidates ==
  /\ Rewritten => target_bases = Candidates
  /\ PruneDone =>
       \A n \in Candidates :
         OnlyUnsupportedDrivers(n) =>
           /\ \A j \in DOMAIN pruned : ~Drives(pruned[j], n)
           /\ n \notin Declared(pruned)

\* assign c = b & s; gave c no alias entry; c was a candidate all the same,
\* and its statement and its fragment of wire b, c; are gone while b stays
C24_Witness ==
  /\ PruneDone
  /\ \E j \in DOMAIN src : src[j] = Asg(<<W("c")>>, <<W("b"), P("&"), W("s")>>)
  /\ replace_map = EmptyMap
  /\ target_bases = {"c"}
  /\ OnlyUnsupportedDrivers("c")
  /\ "c" \in Declared(src)
  /\ "c" \notin Declared(pruned) /\ "b" \in Declared(pruned)
  /\ \A j \in DOMAIN pruned : ~Drives(pruned[j], "c")

-----------------------------------------------------------------------------
\* Lines that are neither driving statements nor declarations

OtherLine(line) == ~IsAssign(line) /\ ~IsDecl(line)

\* What a lexeme of such a line becomes: a slice is substituted bit by bit, an
\* exact key of the table gets its table text, anything else stays
ExpectedElsewhere(x) ==
  IF IsWord(x) /\ Len(x.sel) = 2
  THEN IF Len(SubstitutedBits(x)) = 1 THEN SubstitutedBits(x)[1]
       ELSE ExpectedRendering(SubstitutedBits(x))
  ELSE IF IsWord(x) /\ x \in DOMAIN repl_table THEN repl_table[x]
  ELSE <<x>>

\* A bare name with a literal declared width and per-bit entries in the
\* table, but no entry of its own
UnkeyedVector(x) ==
  /\ IsWord(x) /\ x.sel = <<>>
  /\ x \notin DOMAIN repl_table
  /\ HasLiteralRange(x.name)
  /\ \E tok \in DOMAIN repl_table : tok.name = x.name

\* The driving statements of n in a text
DriverCount(text, n) == Cardinality({j \in DOMAIN text : Drives(text[j], n)})

\* C25. No vector auto-expansion outside driving statements.  A rewritten
\* line that is neither a driving statement nor a declaration is the line
\* with every explicit slice substituted bit by bit, every exact key of the
\* replacement table replaced by its table text and every other lexeme, a
\* bare vector name with per-bit entries and a literal declared width
\* included, left as it is; and a candidate with such a bare reference keeps
\* its driving statements and its declaration in the final text.
C25_NoExpansionElsewhere ==
  /\ \A j \in DOMAIN new_lines :
       OtherLine(src[j]) =>
         new_lines[j] = Flatten([q \in DOMAIN src[j] |-> ExpectedElsewhere(src[j][q])])
  /\ PruneDone =>
       \A j \in DOMAIN src :
         OtherLine(src[j]) =>
           \A x \in Range(src[j]) :
             (UnkeyedVector(x) /\ x.name \in Candidates) =>
               /\ DriverCount(pruned, x.name) = DriverCount(src, x.name)
               /\ x.name \in Declared(src) => x.name \in Declared(pruned)

\* v = {2{s}} gave v[0] and v[1] table entries; sub i0(v, v[1:0], r); became
\* sub i0(v, {2{s}}, r); and v kept its statement and its declaration
C25_Witness ==
  /\ PruneDone
  /\ \E j \in DOMAIN src :
       /\ src[j] = WideInstance[1]
       /\ UnkeyedVector(src[j][4])
       /\ new_lines[j] =
            <<W("sub"), W("i0"), P("("), W("v"), P(",")>>
              \o Repl(2, <<W("s")>>) \o <<P(","), W("r"), P(")"), P(";")>>
  /\ "v" \in Candidates
  /\ DriverCount(pruned, "v") = 1
  /\ "v" \in Declared(pruned)

-----------------------------------------------------------------------------
\* Left-hand-side collapse

SlicedLhs(line) ==
  /\ IsAssign(line)
  /\ Len(AssignLhs(line)) = 1 /\ IsWord(AssignLhs(line)[1])
  /\ Len(AssignLhs(line)[1].sel) = 2

\* The range of the left-hand slice is the declared range of its name
SliceIsDeclaredRange(line) ==
  /\ LhsRef(line).name \in DOMAIN decl_widths
  /\ decl_widths[LhsRef(line).name] = Rng(LhsRef(line).sel[1], LhsRef(line).sel[2])

\* C26. Left-hand-side collapse.  The sliced left-hand side name[hi:lo] of a
\* driving statement is rendered as the bare name exactly when the slice
\* range is the declared range of the name and the rewritten right-hand side
\* is one replication literal {N{x}}; otherwise it is rendered as written.
C26_LhsCollapse ==
  \A j \in DOMAIN new_lines :
    SlicedLhs(src[j]) =>
      AssignLhs(new_lines[j]) =
        IF /\ SliceIsDeclaredRange(src[j])
           /\ IsReplication(AssignRhs(new_lines[j]))
        THEN <<W(LhsRef(src[j]).name)>>
        ELSE AssignLhs(src[j])

-----------------------------------------------------------------------------
\* Bit order of a rendered slice

\* The bits a slice lexeme denotes, from left to right, each as a token text
BitsDenoted(x) ==
  [j \in DOMAIN BitsInOrder(x.sel[1], x.sel[2]) |->
     <<Ix(x.name, BitsInOrder(x.sel[1], x.sel[2])[j])>>]

IsSliceText(text) == Len(text) = 1 /\ IsWord(text[1]) /\ Len(text[1].sel) = 2

\* C27. Slice rendering preserves bit order.  Whenever _replace_token
\* renders the per-bit substituted tokens t1..tn of a slice or vector as one
\* slice base[hi:lo], the bits that slice denotes from left to right are
\* t1..tn in the same order.
C27_SliceRoundTrip ==
  TableBuilt =>
    \A j \in DOMAIN src :
      \A x \in Range(SubstitutedText(src[j])) :
        ( /\ VectorReference(x, IsAssign(src[j]))
          /\ Len(SubstitutedBits(x)) >= 2
          /\ IsSliceText(_replace_token(x, repl_table, decl_widths, IsAssign(src[j]))) )
        => BitsDenoted(_replace_token(x, repl_table, decl_widths, IsAssign(src[j]))[1])
             = SubstitutedBits(x)

-----------------------------------------------------------------------------
\* References left after the prune pass

\* The prune pass removed n: the input drove it, and the final text has no
\* driving statement and no declaration fragment of it
RemovedByPrune(n) ==
  /\ n \in Candidates
  /\ DriverCount(pruned, n) = 0
  /\ n \notin Declared(pruned)

\* C28. No dangling reference after pruning.  A candidate whose driving
\* statements and declaration fragment were removed by the prune pass occurs
\* nowhere in the final text, declaration initializers and right-hand sides
\* of surviving statements included.
C28_NoDanglingReference ==
  PruneDone =>
    \A n \in Candidates :
      RemovedByPrune(n) => \A j \in DOMAIN pruned : Occurrences(pruned[j], n) = 0

-----------------------------------------------------------------------------
\* One run of the prune pass is enough

\* C29. Pruning reaches a fixed point in one run.  In the final text every
\* candidate that still has a driving statement or a declaration fragment
\* occurs somewhere outside its own declaration and its own driving
\* statements, and the prune pass applied to the final text with the same
\* candidate set gives the final text again.
C29_PruneFixedPoint ==
  PruneDone =>
    /\ \A n \in Candidates :
         (DriverCount(pruned, n) > 0 \/ n \in Declared(pruned))
           => OutsideCount(pruned, n) > 0
    /\ prune_unused_assigns_and_decls(pruned, target_bases) = pruned

-----------------------------------------------------------------------------
\* A run with nothing to replace

\* C30. No-op rewrite.  When no driving statement matches the pattern, so
\* that the replacement table is empty, every rewritten line is the line of
\* the input, and the final text is the input (the diff is empty).
C30_NoOpRewrite ==
  (TableBuilt /\ Candidates = {} /\ repl_table = EmptyMap) =>
    /\ \A j \in DOMAIN new_lines : new_lines[j] = src[j]
    /\ PruneDone => pruned = src

====
